---- MODULE Spec2Model ----
(***************************************************************************)
(* Authentication and authorization core of the iCafe registration API:    *)
(* the user store with its unique indexes, the user and auth use cases,    *)
(* and the JWT codec, as state machines.                                   *)
(*                                                                         *)
(* Three specifications share the variables:                               *)
(*   Spec       two request goroutines running Register / Create / Update  *)
(*              / UpdateRole / ChangePassword / Delete one store call at a *)
(*              time against the shared users collection;                  *)
(*   SpecAuth   the auth use case (Register, Login, RefreshToken,          *)
(*              ValidateToken, Logout) with an administrative Update and a *)
(*              clock, one whole call per step;                            *)
(*   SpecToken  the token codec alone: issue, alter, forge, verify.        *)
(*                                                                         *)
(* Fields no modelled decision reads (full_name, created_on, modified_on)  *)
(* are left out of the user document.                                      *)
(***************************************************************************)
EXTENDS Integers, Sequences, FiniteSets, Bags, TLC

VARIABLES users, nextID, pc, req, existing, result, now, tokens, last, calls

vars == <<users, nextID, pc, req, existing, result, now, tokens, last, calls>>

(***************************************************************************)
(* Bounds of the model.                                                    *)
(***************************************************************************)
\* Calls the two goroutines of Spec may start in total.
MaxCalls == 2
\* Calls SpecAuth may make in total.
MaxSteps == 3
\* Last clock tick.
MaxTime == 5
\* Access and refresh token lifetimes, in clock ticks (configuration values:
\* minutes and hours in the deployment).
AccessTokenDuration == 2
RefreshTokenDuration == 3

\* jwt.TimePrecision: NumericDate truncates to whole seconds; one second is
\* TimePrecision clock ticks.
TimePrecision == 2

Range(s) == {s[i] : i \in 1..Len(s)}

(***************************************************************************)
(* domain: roles, permissions, the role table.                             *)
(***************************************************************************)
RoleAdmin == "admin"
RoleManager == "manager"
RoleSale == "sale"
RoleStaff == "staff"
RoleCustomer == "customer"

Roles == {RoleAdmin, RoleManager, RoleSale, RoleStaff, RoleCustomer}

PermissionReadRegistration == "registration:read"
PermissionWriteRegistration == "registration:write"
PermissionDeleteRegistration == "registration:delete"
PermissionReadFile == "file:read"
PermissionWriteFile == "file:write"
PermissionDeleteFile == "file:delete"
PermissionManageUser == "user:manage"

RolePermissions ==
    [r \in Roles |->
        CASE r = RoleAdmin ->
               <<PermissionReadRegistration, PermissionWriteRegistration,
                 PermissionDeleteRegistration, PermissionReadFile,
                 PermissionWriteFile, PermissionDeleteFile, PermissionManageUser>>
          [] r = RoleManager ->
               <<PermissionReadRegistration, PermissionWriteRegistration,
                 PermissionDeleteRegistration, PermissionReadFile,
                 PermissionWriteFile, PermissionDeleteFile>>
          [] r = RoleSale ->
               <<PermissionReadRegistration, PermissionWriteRegistration,
                 PermissionReadFile, PermissionWriteFile>>
          [] r = RoleStaff ->
               <<PermissionReadRegistration, PermissionWriteRegistration,
                 PermissionReadFile, PermissionWriteFile>>
          [] OTHER ->
               <<PermissionReadRegistration, PermissionReadFile>>]

\* An unknown role has no permissions.
GetPermissionsForRole(role) ==
    IF role \in DOMAIN RolePermissions THEN RolePermissions[role] ELSE <<>>

\* A slice as the bag of its elements: what is left of it when the order is
\* not looked at.
BagOfSlice(s) == [x \in Range(s) |-> Cardinality({i \in DOMAIN s : s[i] = x})]

\* User.HasPermission: among the role's permissions, or the custom ones.
HasPermission(u, permission) ==
    \/ \E i \in DOMAIN u.Permissions : u.Permissions[i] = permission
    \/ \E i \in DOMAIN u.CustomPermissions : u.CustomPermissions[i] = permission

\* User.GetAllPermissions: both slices go into a map as keys, and the keys
\* are appended one by one, in the order the map yields them, which is any:
\* the result is given as the bag of its elements.
MutGetAllPermissionsAppend(u) ==
    BagOfSlice(u.Permissions) (+) BagOfSlice(u.CustomPermissions)

GetAllPermissions(u) ==
    LET permMap == [p \in Range(u.Permissions) \cup Range(u.CustomPermissions) |-> TRUE]
    IN  SetToBag(DOMAIN permMap)

(***************************************************************************)
(* Errors.                                                                 *)
(***************************************************************************)
NoError == "nil"
ErrNotFound == "resource not found"
ErrAlreadyExists == "resource already exists"
ErrInvalidID == "invalid id format"
ErrEmailAlreadyExists == "email already registered"
ErrPhoneAlreadyExists == "phone already registered"
ErrInvalidCredentials == "invalid username or password"
ErrInvalidToken == "invalid or expired token"
ErrUserInactive == "user account is inactive"

(***************************************************************************)
(* bcrypt.  The salt is left out: a hash is the password it was made from, *)
(* wrapped, and never equal to the password itself.                        *)
(***************************************************************************)
HashPassword(password) == <<"bcrypt", password>>

CompareHashAndPassword(hash, password) == hash = <<"bcrypt", password>>

(***************************************************************************)
(* github.com/golang-jwt/jwt/v5 as the use case calls it.                  *)
(*                                                                         *)
(* A token string is base64url(header) "." base64url(payload) "."          *)
(* base64url(signature).  It is kept as its parts:                         *)
(*   shape    "ok", or what a changed byte broke: the number of segments,  *)
(*            or the base64/JSON of the header or of the payload;          *)
(*   header   the decoded JOSE header;                                     *)
(*   payload  the decoded JSON claims object;                              *)
(*   ppad     the unused trailing bits of the payload segment's last       *)
(*            character (part of the signed text, not of the payload);     *)
(*   sig      the decoded signature bytes;                                 *)
(*   spad     the unused trailing bits of the signature segment's last     *)
(*            character: 32 bytes encode to 43 characters, the last of     *)
(*            which carries 4 signature bits and 2 unused bits.            *)
(***************************************************************************)
SigningMethodHS256 == "HS256"

\* The registered methods of type *jwt.SigningMethodHMAC.
HMACAlgs == {"HS256", "HS384", "HS512"}

\* Methods jwt.GetSigningMethod knows (the HMAC family, and a sample of the rest).
RegisteredAlgs == HMACAlgs \cup {"none", "RS256"}

\* jwtConfig.SecretKey, and a key that is not it.
SecretKey == "secret-key"
OtherKey == "other-key"
Keys == {SecretKey, OtherKey}

\* jwt.NewNumericDate: the time truncated to jwt.TimePrecision.
NewNumericDate(t) == t - (t % TimePrecision)

\* primitive.ObjectID.Hex and primitive.ObjectIDFromHex.
Hex(id) == <<"oid", id>>
IsHex(s) == Len(s) = 2 /\ s[1] = "oid"
ObjectIDFromHex(s) == s[2]

\* json.Marshal of JWTClaims: the struct's fields under their json names.
MarshalClaims(c) ==
    [user_id |-> c.UserID, username |-> c.Username, email |-> c.Email,
     role |-> c.Role, permissions |-> c.Permissions,
     exp |-> c.ExpiresAt, iat |-> c.IssuedAt, sub |-> c.Subject]

\* json.Unmarshal into &JWTClaims{}.
UnmarshalClaims(j) ==
    [UserID |-> j.user_id, Username |-> j.username, Email |-> j.email,
     Role |-> j.role, Permissions |-> j.permissions,
     ExpiresAt |-> j.exp, IssuedAt |-> j.iat, Subject |-> j.sub]

\* The text a signature covers: the first two segments as written.
SigningString(header, payload, ppad) == <<header, payload, ppad>>

\* An ideal MAC: the signature of a text under a key and a hash is that triple,
\* so two signatures agree only when all three do.
HMACSign(alg, key, text) == [alg |-> alg, key |-> key, text |-> text, flipped |-> FALSE]

\* jwt.NewWithClaims(method, claims).SignedString(key).
SignedString(alg, claims, key) ==
    LET header == [alg |-> alg, typ |-> "JWT"]
        payload == MarshalClaims(claims)
    IN  [shape |-> "ok", header |-> header, payload |-> payload, ppad |-> 0,
         sig |-> HMACSign(alg, key, SigningString(header, payload, 0)), spad |-> 0]

\* generateAccessToken: identity, role and the stored role permissions, valid
\* for AccessTokenDuration from t.
MutGenerateAccessTokenNoEmail(user, t) ==
    SignedString(SigningMethodHS256,
        [UserID |-> Hex(user.ID), Username |-> user.Username, Email |-> "",
         Role |-> user.Role, Permissions |-> user.Permissions,
         ExpiresAt |-> NewNumericDate(t + AccessTokenDuration),
         IssuedAt |-> NewNumericDate(t), Subject |-> Hex(user.ID)],
        SecretKey)

MutGenerateAccessTokenRefreshDuration(user, t) ==
    SignedString(SigningMethodHS256,
        [UserID |-> Hex(user.ID), Username |-> user.Username, Email |-> user.Email,
         Role |-> user.Role, Permissions |-> user.Permissions,
         ExpiresAt |-> NewNumericDate(t + RefreshTokenDuration),
         IssuedAt |-> NewNumericDate(t), Subject |-> Hex(user.ID)],
        SecretKey)

generateAccessToken(user, t) ==
    SignedString(SigningMethodHS256,
        [UserID |-> Hex(user.ID), Username |-> user.Username, Email |-> user.Email,
         Role |-> user.Role, Permissions |-> user.Permissions,
         ExpiresAt |-> NewNumericDate(t + AccessTokenDuration),
         IssuedAt |-> NewNumericDate(t), Subject |-> Hex(user.ID)],
        SecretKey)

\* generateRefreshToken: the identity alone, valid for RefreshTokenDuration.
MutGenerateRefreshTokenNoDuration(user, t) ==
    SignedString(SigningMethodHS256,
        [UserID |-> Hex(user.ID), Username |-> user.Username, Email |-> "",
         Role |-> "", Permissions |-> <<>>,
         ExpiresAt |-> NewNumericDate(t),
         IssuedAt |-> NewNumericDate(t), Subject |-> Hex(user.ID)],
        SecretKey)

generateRefreshToken(user, t) ==
    SignedString(SigningMethodHS256,
        [UserID |-> Hex(user.ID), Username |-> user.Username, Email |-> "",
         Role |-> "", Permissions |-> <<>>,
         ExpiresAt |-> NewNumericDate(t + RefreshTokenDuration),
         IssuedAt |-> NewNumericDate(t), Subject |-> Hex(user.ID)],
        SecretKey)

\* The key function validateToken hands to the parser: the secret key for a
\* method of the HMAC family, an error for any other.
KeyFuncOK(tok) == tok.header.alg \in HMACAlgs

\* SigningMethodHMAC.Verify with a []byte key; every other registered method
\* refuses a []byte key.  The signature segment is decoded with
\* base64.RawURLEncoding, not strict: the unused bits of its last character
\* (spad) are dropped unread.
MethodVerify(tok, key) ==
    /\ tok.header.alg \in HMACAlgs
    /\ tok.sig = HMACSign(tok.header.alg, key,
                          SigningString(tok.header, tok.payload, tok.ppad))

\* The parser's claims validation: exp must be after the current time.
ClaimsValid(tok, t) == t < tok.payload.exp

\* jwt.ParseWithClaims(tokenString, &JWTClaims{}, keyFunc): TRUE when it
\* returns no error (the token is then Valid).
ParseWithClaimsOK(tok, t) ==
    /\ tok.shape = "ok"
    /\ tok.header.alg \in RegisteredAlgs
    /\ KeyFuncOK(tok)
    /\ MethodVerify(tok, SecretKey)
    /\ ClaimsValid(tok, t)

NilClaims == [nil |-> TRUE]

\* validateToken: the parsed claims, or ErrInvalidToken for every failure.
MutValidateTokenUnverified(tok, t) ==
    IF tok.shape = "ok" /\ tok.header.alg \in RegisteredAlgs
    THEN [err |-> NoError, claims |-> UnmarshalClaims(tok.payload)]
    ELSE [err |-> ErrInvalidToken, claims |-> NilClaims]

MutValidateTokenNoExpiry(tok, t) ==
    IF tok.shape = "ok" /\ tok.header.alg \in RegisteredAlgs /\ KeyFuncOK(tok)
       /\ MethodVerify(tok, SecretKey)
    THEN [err |-> NoError, claims |-> UnmarshalClaims(tok.payload)]
    ELSE [err |-> ErrInvalidToken, claims |-> NilClaims]

validateToken(tok, t) ==
    IF ParseWithClaimsOK(tok, t)
    THEN [err |-> NoError, claims |-> UnmarshalClaims(tok.payload)]
    ELSE [err |-> ErrInvalidToken, claims |-> NilClaims]

\* ValidateToken: the five identity fields of the verified claims.
ValidateToken(tok, t) ==
    LET v == validateToken(tok, t)
    IN  IF v.err # NoError
        THEN [err |-> v.err, claims |-> NilClaims]
        ELSE [err |-> NoError,
              claims |-> [UserID |-> v.claims.UserID, Username |-> v.claims.Username,
                          Email |-> v.claims.Email, Role |-> v.claims.Role,
                          Permissions |-> v.claims.Permissions]]

(***************************************************************************)
(* Changes to a token string made outside the service.                     *)
(***************************************************************************)
\* One changed character: in the payload (a role left unknown, an expiry digit
\* raised, the segment's unused trailing bits), in the header (another method
\* name), in the signature (signature bits, or the unused trailing bits of its
\* last character), or one that breaks a segment or the dots between them.
SingleByteChanges(tok) ==
    ({[tok EXCEPT !.payload.role = "?"],
      [tok EXCEPT !.payload.exp = tok.payload.exp + TimePrecision],
      [tok EXCEPT !.ppad = 1],
      [tok EXCEPT !.header.alg = "HS384"],
      [tok EXCEPT !.sig.flipped = TRUE],
      [tok EXCEPT !.spad = 1],
      [tok EXCEPT !.shape = "segments"],
      [tok EXCEPT !.shape = "header"],
      [tok EXCEPT !.shape = "payload"]}) \ {tok}

\* Larger rewrites of the content: another role, another subject.
ContentRewrites(tok) ==
    ({[tok EXCEPT !.payload.role = RoleAdmin],
      [tok EXCEPT !.header.alg = "none"]}) \ {tok}

\* A token made outside the service: any registered method, either key.
ForgedToken(alg, key, claims) == SignedString(alg, claims, key)

(***************************************************************************)
(* The users collection.  A document is a record; users maps the ObjectIDs *)
(* in the collection to their documents.  EmailSet tells whether the       *)
(* document has an email field at all (bson omitempty leaves an empty      *)
(* email out on insert); decoding a document without one gives Email "".   *)
(* LastLogin 0 is "never".                                                 *)
(***************************************************************************)
Usernames == {"alice", "bob"}
Phones == {"0900000001", "0900000002"}
Emails == {"a@x.io", "b@x.io"}
Passwords == {"s3cret!", "wrongpass"}

NewUser(username, email, phone, password, role) ==
    [ID |-> 0, Username |-> username, Email |-> email, EmailSet |-> email # "",
     Phone |-> phone, Password |-> password, Role |-> role,
     Permissions |-> <<>>, CustomPermissions |-> <<>>,
     IsActive |-> FALSE, LastLogin |-> 0]

IDs == DOMAIN users

Idle == [op |-> "idle"]
NoUser == [ID |-> 0]
NoResult == [op |-> "none", err |-> NoError, dup |-> {}, user |-> NoUser]
NoLast == [op |-> "none"]

\* The goroutines of Spec.
Procs == {"g1", "g2"}

(***************************************************************************)
(* The HTTP gate: gin handler chains.  A request context carries the       *)
(* Authorization header as its text, the keys handlers have set, whether   *)
(* the chain was aborted, the status written, and the handlers entered.    *)
(***************************************************************************)
StatusUnauthorized == 401
StatusForbidden == 403

\* The pieces of a header text: a word, one space, a token string.
Word(w) == [kind |-> "word", text |-> w]
Space == [kind |-> "space"]
TokenString(tok) == [kind |-> "token", tok |-> tok]

ToLower == [w \in {"Bearer", "bearer", "BEARER", "Basic"} |->
              CASE w = "Basic" -> "basic" [] OTHER -> "bearer"]

\* strings.SplitN(s, " ", 2): cut at the first space, if there is one.
SplitN(s) ==
    IF \E i \in 1..Len(s) : s[i].kind = "space"
    THEN LET i == CHOOSE k \in 1..Len(s) :
                    s[k].kind = "space" /\ \A j \in 1..(k - 1) : s[j].kind # "space"
         IN  <<SubSeq(s, 1, i - 1), SubSeq(s, i + 1, Len(s))>>
    ELSE <<s>>

\* strings.EqualFold(s, w) for a word w.
EqualFold(s, w) ==
    Len(s) = 1 /\ s[1].kind = "word" /\ ToLower[s[1].text] = ToLower[w]

\* ValidateToken on the text after the scheme: anything but one token string
\* (nothing, or a token with a space before it) does not parse.
ValidateTokenString(s, t) ==
    IF Len(s) = 1 /\ s[1].kind = "token"
    THEN ValidateToken(s[1].tok, t)
    ELSE [err |-> ErrInvalidToken, claims |-> NilClaims]

NewContext(header) ==
    [header |-> header, keys |-> <<>>, aborted |-> FALSE, status |-> 0, ran |-> <<>>]

\* response.Error(c, status, ...) then c.Abort().
Abort(c, status) == [c EXCEPT !.aborted = TRUE, !.status = status]

\* JWTAuthMiddleware: the header present, "Bearer" (in any case) then a space
\* then a token ValidateToken accepts; the claims go into the context.
MutJWTAuthMiddlewareNoVerify(c, t) ==
    LET authHeader == c.header
    IN  IF authHeader = <<>> THEN Abort(c, StatusUnauthorized)
        ELSE LET parts == SplitN(authHeader)
             IN  IF Len(parts) # 2 \/ ~EqualFold(parts[1], "Bearer")
                 THEN Abort(c, StatusUnauthorized)
                 ELSE IF Len(parts[2]) # 1 \/ parts[2][1].kind # "token"
                          \/ parts[2][1].tok.shape # "ok"
                 THEN Abort(c, StatusUnauthorized)
                 ELSE LET claims == UnmarshalClaims(parts[2][1].tok.payload)
                      IN  [c EXCEPT !.keys =
                             [k \in {"user_id", "username", "email", "role", "permissions"} |->
                                CASE k = "user_id" -> claims.UserID
                                  [] k = "username" -> claims.Username
                                  [] k = "email" -> claims.Email
                                  [] k = "role" -> claims.Role
                                  [] OTHER -> claims.Permissions]]

JWTAuthMiddleware(c, t) ==
    LET authHeader == c.header
    IN  IF authHeader = <<>> THEN Abort(c, StatusUnauthorized)
        ELSE LET parts == SplitN(authHeader)
             IN  IF Len(parts) # 2 \/ ~EqualFold(parts[1], "Bearer")
                 THEN Abort(c, StatusUnauthorized)
                 ELSE LET v == ValidateTokenString(parts[2], t)
                      IN  IF v.err # NoError THEN Abort(c, StatusUnauthorized)
                          ELSE [c EXCEPT !.keys =
                                 [k \in {"user_id", "username", "email", "role", "permissions"} |->
                                    CASE k = "user_id" -> v.claims.UserID
                                      [] k = "username" -> v.claims.Username
                                      [] k = "email" -> v.claims.Email
                                      [] k = "role" -> v.claims.Role
                                      [] OTHER -> v.claims.Permissions]]

\* RequirePermission(permission): the permission among those of the context.
RequirePermission(permission, c) ==
    IF "permissions" \notin DOMAIN c.keys THEN Abort(c, StatusForbidden)
    ELSE IF permission \notin Range(c.keys["permissions"]) THEN Abort(c, StatusForbidden)
    ELSE c

\* RequireRole(roles...): the role of the context among roles.
MutRequireRoleAnyRole(roles, c) ==
    IF "role" \notin DOMAIN c.keys THEN Abort(c, StatusForbidden)
    ELSE c

RequireRole(roles, c) ==
    IF "role" \notin DOMAIN c.keys THEN Abort(c, StatusForbidden)
    ELSE IF c.keys["role"] \notin Range(roles) THEN Abort(c, StatusForbidden)
    ELSE c

\* The handlers of a chain.
UseJWTAuth == [mw |-> "JWTAuthMiddleware"]
UseRequireRole(roles) == [mw |-> "RequireRole", roles |-> roles]
UseRequirePermission(p) == [mw |-> "RequirePermission", permission |-> p]
Handler(name) == [mw |-> "handler", name |-> name]

\* One handler of the chain runs.
Handle(h, c0, t) ==
    LET c == [c0 EXCEPT !.ran = Append(@, h)]
    IN  CASE h.mw = "JWTAuthMiddleware" -> JWTAuthMiddleware(c, t)
          [] h.mw = "RequireRole" -> RequireRole(h.roles, c)
          [] h.mw = "RequirePermission" -> RequirePermission(h.permission, c)
          [] OTHER -> c

\* gin runs the handlers of a chain in order until one aborts.
RECURSIVE Serve(_, _, _, _)
Serve(chain, i, c, t) ==
    IF i > Len(chain) \/ c.aborted THEN c
    ELSE Serve(chain, i + 1, Handle(chain[i], c, t), t)

\* The routes of the protected group.
UserRoutes ==
    {"POST /users", "GET /users", "GET /users/:id", "PUT /users/:id",
     "PUT /users/:id/password", "DELETE /users/:id"}
CustomerReadRoutes == {"GET /customers", "GET /customers/:id"}
CustomerWriteRoutes == {"POST /customers", "PUT /customers/:id", "DELETE /customers/:id"}
ProtectedRoutes == UserRoutes \cup CustomerReadRoutes \cup CustomerWriteRoutes

\* setupRoutes: the chain in front of each protected route.
RouteChain(route) ==
    <<UseJWTAuth>>
    \o (IF route \in UserRoutes \cup CustomerWriteRoutes
        THEN <<UseRequireRole(<<RoleAdmin>>)>> ELSE <<>>)
    \o <<Handler(route)>>

(***************************************************************************)
(* SpecToken: the codec on its own.  One user, as the store returns it     *)
(* after Create; one token string at a time, issued by the service, then   *)
(* possibly changed, or made outside it; the clock; ValidateToken.         *)
(***************************************************************************)
\* A user as userRepository.Create leaves it.
StoredUser(id, username, email, phone, password, role) ==
    [NewUser(username, email, phone, HashPassword(password), role)
        EXCEPT !.ID = id, !.IsActive = TRUE,
               !.Permissions = GetPermissionsForRole(role)]

TheUser == users[1]

NilToken == [nil |-> TRUE]

\* A token in a client's hands: the string, what it was issued as and for
\* whom, when, and the token it was obtained with when RefreshToken issued it.
Entry(tok, kind, user, t) ==
    [tok |-> tok, kind |-> kind, user |-> user, issuedAt |-> t, from |-> NilToken]

InitToken ==
    /\ \E role \in Roles, email \in {"", "a@x.io"} :
         users = (1 :> StoredUser(1, "alice", email, "0900000001", "s3cret!", role))
    /\ nextID = 2
    /\ pc = [p \in Procs |-> "idle"]
    /\ req = [p \in Procs |-> Idle]
    /\ existing = [p \in Procs |-> NoUser]
    /\ result = [p \in Procs |-> NoResult]
    /\ now \in {0, 1}
    /\ tokens = {}
    /\ last = NoLast
    /\ calls = 0

TokenFrame == UNCHANGED <<users, nextID, pc, req, existing, result, calls>>

TokenIssueAccess ==
    /\ tokens' = {Entry(generateAccessToken(TheUser, now), "access", TheUser, now)}
    /\ last' = NoLast
    /\ UNCHANGED now
    /\ TokenFrame

TokenIssueRefresh ==
    /\ tokens' = {Entry(generateRefreshToken(TheUser, now), "refresh", TheUser, now)}
    /\ last' = NoLast
    /\ UNCHANGED now
    /\ TokenFrame

\* One character of an issued token changes.
TokenChangeByte ==
    /\ \E e \in tokens :
         /\ e.kind \in {"access", "refresh"}
         /\ \E c \in SingleByteChanges(e.tok) :
              tokens' = {[e EXCEPT !.tok = c, !.kind = "changed"]}
    /\ last' = NoLast
    /\ UNCHANGED now
    /\ TokenFrame

\* The content of an issued token is rewritten.
TokenRewrite ==
    /\ \E e \in tokens :
         /\ e.kind \in {"access", "refresh"}
         /\ \E c \in ContentRewrites(e.tok) :
              tokens' = {[e EXCEPT !.tok = c, !.kind = "rewritten"]}
    /\ last' = NoLast
    /\ UNCHANGED now
    /\ TokenFrame

\* A token for the user is made outside the service.
TokenForge ==
    /\ \E alg \in RegisteredAlgs, key \in Keys :
         LET t == generateAccessToken(TheUser, now)
         IN  tokens' = {Entry(ForgedToken(alg, key, UnmarshalClaims(t.payload)),
                              "forged", TheUser, now)}
    /\ last' = NoLast
    /\ UNCHANGED now
    /\ TokenFrame

Tick ==
    /\ now < MaxTime
    /\ now' = now + 1
    /\ UNCHANGED <<users, nextID, pc, req, existing, result, tokens, last, calls>>

TokenValidate ==
    /\ \E e \in tokens :
         last' = [op |-> "ValidateToken", entry |-> e, at |-> now,
                  out |-> ValidateToken(e.tok, now)]
    /\ UNCHANGED <<now, tokens>>
    /\ TokenFrame

NextToken ==
    \/ TokenIssueAccess
    \/ TokenIssueRefresh
    \/ TokenChangeByte
    \/ TokenRewrite
    \/ TokenForge
    \/ Tick
    \/ TokenValidate

SpecToken == InitToken /\ [][NextToken]_vars

(***************************************************************************)
(* userRepository: the users collection behind its three unique indexes    *)
(* (username, phone, and email, the last one sparse).  Each method is one  *)
(* MongoDB command, atomic on the collection: it takes the collection us   *)
(* and gives the collection after it and the error returned.               *)
(***************************************************************************)
Docs(us) == {us[i] : i \in DOMAIN us}

\* FindOne({"username": username}).
GetByUsername(us, username) ==
    IF \E d \in Docs(us) : d.Username = username
    THEN CHOOSE d \in Docs(us) : d.Username = username
    ELSE NoUser

\* FindOne({"phone": phone}).
GetByPhone(us, phone) ==
    IF \E d \in Docs(us) : d.Phone = phone
    THEN CHOOSE d \in Docs(us) : d.Phone = phone
    ELSE NoUser

\* FindOne({"email": email}): only documents that have the field match.
GetByEmail(us, email) ==
    IF \E d \in Docs(us) : d.EmailSet /\ d.Email = email
    THEN CHOOSE d \in Docs(us) : d.EmailSet /\ d.Email = email
    ELSE NoUser

\* FindOne({"_id": objectID}).
GetByID(us, hex) ==
    IF IsHex(hex) /\ ObjectIDFromHex(hex) \in DOMAIN us
    THEN us[ObjectIDFromHex(hex)]
    ELSE NoUser

\* The unique indexes: would document doc, stored under _id id, collide with
\* another document?  The email index is sparse: it holds only the documents
\* that have an email field, whatever its value.
MutDuplicateKeyUsernameOnly(us, id, doc) ==
    \E i \in DOMAIN us \ {id} : us[i].Username = doc.Username

MutDuplicateKeyNoUsername(us, id, doc) ==
    \E i \in DOMAIN us \ {id} :
        \/ us[i].Phone = doc.Phone
        \/ us[i].EmailSet /\ doc.EmailSet /\ us[i].Email = doc.Email

DuplicateKey(us, id, doc) ==
    \E i \in DOMAIN us \ {id} :
        \/ us[i].Username = doc.Username
        \/ us[i].Phone = doc.Phone
        \/ us[i].EmailSet /\ doc.EmailSet /\ us[i].Email = doc.Email

\* userRepository.Create: a fresh ObjectID, active, the role's permissions;
\* InsertOne, whose duplicate-key error comes back as ErrAlreadyExists
\* whichever index raised it.  bson omitempty leaves an empty email out.
UserRepoCreate(us, id, user) ==
    LET doc == [user EXCEPT !.ID = id, !.IsActive = TRUE,
                            !.Permissions = GetPermissionsForRole(user.Role),
                            !.EmailSet = (user.Email # "")]
    IN  IF DuplicateKey(us, id, doc)
        THEN [users |-> us, err |-> ErrAlreadyExists, user |-> doc]
        ELSE [users |-> (id :> doc) @@ us, err |-> NoError, user |-> doc]

\* userRepository.Update: UpdateOne $set of email, phone, role, permissions
\* (recomputed from the role), custom_permissions and is_active.  Neither
\* username nor password nor last_login is written.  The email field is set
\* even when empty.
MutUserRepoUpdateKeepPermissions(us, hex, user) ==
    IF ~IsHex(hex) THEN [users |-> us, err |-> ErrInvalidID]
    ELSE LET id == ObjectIDFromHex(hex)
         IN  IF id \notin DOMAIN us THEN [users |-> us, err |-> ErrNotFound]
             ELSE LET doc == [us[id] EXCEPT
                                !.Email = user.Email, !.EmailSet = TRUE,
                                !.Phone = user.Phone, !.Role = user.Role,
                                !.Permissions = user.Permissions,
                                !.CustomPermissions = user.CustomPermissions,
                                !.IsActive = user.IsActive]
                  IN  IF DuplicateKey(us, id, doc)
                      THEN [users |-> us, err |-> ErrAlreadyExists]
                      ELSE [users |-> [us EXCEPT ![id] = doc], err |-> NoError]

UserRepoUpdate(us, hex, user) ==
    IF ~IsHex(hex) THEN [users |-> us, err |-> ErrInvalidID]
    ELSE LET id == ObjectIDFromHex(hex)
         IN  IF id \notin DOMAIN us THEN [users |-> us, err |-> ErrNotFound]
             ELSE LET doc == [us[id] EXCEPT
                                !.Email = user.Email, !.EmailSet = TRUE,
                                !.Phone = user.Phone, !.Role = user.Role,
                                !.Permissions = GetPermissionsForRole(user.Role),
                                !.CustomPermissions = user.CustomPermissions,
                                !.IsActive = user.IsActive]
                  IN  IF DuplicateKey(us, id, doc)
                      THEN [users |-> us, err |-> ErrAlreadyExists]
                      ELSE [users |-> [us EXCEPT ![id] = doc], err |-> NoError]

\* userRepository.UpdateLastLogin: $set last_login; no document matching is
\* no error.
UserRepoUpdateLastLogin(us, hex, t) ==
    IF IsHex(hex) /\ ObjectIDFromHex(hex) \in DOMAIN us
    THEN [us EXCEPT ![ObjectIDFromHex(hex)].LastLogin = t]
    ELSE us

\* userRepository.Delete: DeleteOne.
UserRepoDelete(us, hex) ==
    IF ~IsHex(hex) THEN [users |-> us, err |-> ErrInvalidID]
    ELSE LET id == ObjectIDFromHex(hex)
         IN  IF id \notin DOMAIN us THEN [users |-> us, err |-> ErrNotFound]
             ELSE [users |-> [i \in DOMAIN us \ {id} |-> us[i]], err |-> NoError]


(***************************************************************************)
(* authUsecase, one whole call at a time.                                  *)
(***************************************************************************)
\* The user Register builds before it persists.
MutRegisterUserCustomer(r) ==
    [NewUser(r.Username, "", r.Phone, HashPassword(r.Password), RoleCustomer)
        EXCEPT !.Permissions = GetPermissionsForRole(RoleCustomer), !.IsActive = TRUE]

RegisterUser(r) ==
    [NewUser(r.Username, "", r.Phone, HashPassword(r.Password), RoleSale)
        EXCEPT !.Permissions = GetPermissionsForRole(RoleSale), !.IsActive = TRUE]

\* Register: username taken, then phone taken, then hash and Create.
Register(us, id, r) ==
    IF GetByUsername(us, r.Username) # NoUser
    THEN [users |-> us, err |-> ErrAlreadyExists, user |-> NoUser]
    ELSE IF GetByPhone(us, r.Phone) # NoUser
    THEN [users |-> us, err |-> ErrPhoneAlreadyExists, user |-> NoUser]
    ELSE LET c == UserRepoCreate(us, id, RegisterUser(r))
         IN  [users |-> c.users, err |-> c.err,
              user |-> IF c.err = NoError THEN c.user ELSE NoUser]

\* domain.UserInfo of a login response.
UserInfo(user) ==
    [ID |-> Hex(user.ID), Username |-> user.Username, Email |-> user.Email,
     Role |-> user.Role, Permissions |-> user.Permissions]

LoginFailure(us, e) ==
    [users |-> us, err |-> e, access |-> NilToken, refresh |-> NilToken,
     user |-> NoUser, issued |-> {}]

LoginSuccess(us, user, t) ==
    [users |-> us, err |-> NoError,
     access |-> generateAccessToken(user, t),
     refresh |-> generateRefreshToken(user, t),
     user |-> UserInfo(user),
     issued |-> {Entry(generateAccessToken(user, t), "access", user, t),
                 Entry(generateRefreshToken(user, t), "refresh", user, t)}]

\* Login: the user by username, active, password matching; then both tokens,
\* and last_login on a best-effort basis (stamped says whether that write
\* went through).
MutLoginNotFoundRaw(us, r, t, stamped) ==
    LET user == GetByUsername(us, r.Username)
    IN  IF user = NoUser THEN LoginFailure(us, ErrNotFound)
        ELSE IF ~user.IsActive THEN LoginFailure(us, ErrUserInactive)
        ELSE IF ~CompareHashAndPassword(user.Password, r.Password)
        THEN LoginFailure(us, ErrInvalidCredentials)
        ELSE LoginSuccess(IF stamped THEN UserRepoUpdateLastLogin(us, Hex(user.ID), t)
                          ELSE us, user, t)

MutLoginNoActiveCheck(us, r, t, stamped) ==
    LET user == GetByUsername(us, r.Username)
    IN  IF user = NoUser THEN LoginFailure(us, ErrInvalidCredentials)
        ELSE IF ~CompareHashAndPassword(user.Password, r.Password)
        THEN LoginFailure(us, ErrInvalidCredentials)
        ELSE LoginSuccess(IF stamped THEN UserRepoUpdateLastLogin(us, Hex(user.ID), t)
                          ELSE us, user, t)

Login(us, r, t, stamped) ==
    LET user == GetByUsername(us, r.Username)
    IN  IF user = NoUser THEN LoginFailure(us, ErrInvalidCredentials)
        ELSE IF ~user.IsActive THEN LoginFailure(us, ErrUserInactive)
        ELSE IF ~CompareHashAndPassword(user.Password, r.Password)
        THEN LoginFailure(us, ErrInvalidCredentials)
        ELSE LoginSuccess(IF stamped THEN UserRepoUpdateLastLogin(us, Hex(user.ID), t)
                          ELSE us, user, t)

\* The pair of a response, as obtained with tok.
IssuedFrom(out, tok) == [out EXCEPT !.issued = {[e EXCEPT !.from = tok] : e \in @}]

\* RefreshToken: the token verified, the user read again by the ID in its
\* claims, active; then a new pair.
MutRefreshTokenFromClaims(us, tok, t) ==
    LET v == validateToken(tok, t)
    IN  IF v.err # NoError THEN LoginFailure(us, ErrInvalidToken)
        ELSE LET user == GetByID(us, v.claims.UserID)
             IN  IF user = NoUser THEN LoginFailure(us, ErrInvalidToken)
                 ELSE IF ~user.IsActive THEN LoginFailure(us, ErrUserInactive)
                 ELSE IssuedFrom(LoginSuccess(us, [user EXCEPT !.Role = v.claims.Role,
                                                    !.Permissions = v.claims.Permissions], t), tok)

MutRefreshTokenNoActiveCheck(us, tok, t) ==
    LET v == validateToken(tok, t)
    IN  IF v.err # NoError THEN LoginFailure(us, ErrInvalidToken)
        ELSE LET user == GetByID(us, v.claims.UserID)
             IN  IF user = NoUser THEN LoginFailure(us, ErrInvalidToken)
                 ELSE IssuedFrom(LoginSuccess(us, user, t), tok)

RefreshToken(us, tok, t) ==
    LET v == validateToken(tok, t)
    IN  IF v.err # NoError THEN LoginFailure(us, ErrInvalidToken)
        ELSE LET user == GetByID(us, v.claims.UserID)
             IN  IF user = NoUser THEN LoginFailure(us, ErrInvalidToken)
                 ELSE IF ~user.IsActive THEN LoginFailure(us, ErrUserInactive)
                 ELSE IssuedFrom(LoginSuccess(us, user, t), tok)

\* Logout: nothing.
MutLogoutChecksUser(us, userID) ==
    IF GetByID(us, userID) = NoUser THEN [users |-> us, err |-> ErrNotFound]
    ELSE [users |-> us, err |-> NoError]

Logout(us, userID) == [users |-> us, err |-> NoError]

(***************************************************************************)
(* userUsecase.Update, one whole call at a time.  A request field left at  *)
(* its zero value ("" for email, phone and role; nil for is_active and     *)
(* custom_permissions, here set = FALSE) is not applied.                   *)
(***************************************************************************)
Unset == [set |-> FALSE]
Set(v) == [set |-> TRUE, v |-> v]

UpdateUserRequest(email, phone, role, isActive, custom) ==
    [Email |-> email, Phone |-> phone, Role |-> role, IsActive |-> isActive,
     CustomPermissions |-> custom]

\* The fields of the request applied to the user read (lines 142-155).
ApplyUpdate(ex, r) ==
    [ex EXCEPT !.Role = IF r.Role # "" THEN r.Role ELSE @,
               !.IsActive = IF r.IsActive.set THEN r.IsActive.v ELSE @,
               !.CustomPermissions = IF r.CustomPermissions.set
                                     THEN r.CustomPermissions.v ELSE @]

Update(us, hex, r) ==
    LET ex == GetByID(us, hex)
    IN  IF ex = NoUser
        THEN [users |-> us, err |-> IF IsHex(hex) THEN ErrNotFound ELSE ErrInvalidID]
        ELSE IF r.Email # "" /\ r.Email # ex.Email /\ GetByEmail(us, r.Email) # NoUser
        THEN [users |-> us, err |-> ErrEmailAlreadyExists]
        ELSE LET ex1 == IF r.Email # "" /\ r.Email # ex.Email
                        THEN [ex EXCEPT !.Email = r.Email] ELSE ex
             IN  IF r.Phone # "" /\ r.Phone # ex1.Phone /\ GetByPhone(us, r.Phone) # NoUser
                 THEN [users |-> us, err |-> ErrPhoneAlreadyExists]
                 ELSE LET ex2 == IF r.Phone # "" /\ r.Phone # ex1.Phone
                                 THEN [ex1 EXCEPT !.Phone = r.Phone] ELSE ex1
                      IN  UserRepoUpdate(us, hex, ApplyUpdate(ex2, r))

\* domain.UpdateUserRoleRequest.
UpdateUserRoleRequest(role, custom) == [Role |-> role, CustomPermissions |-> custom]

\* UpdateRole: the role, with its permissions, and the custom permissions of
\* the request applied to the user read; then userRepo.Update.
UpdateRole(us, hex, r) ==
    LET ex == GetByID(us, hex)
    IN  IF ex = NoUser
        THEN [users |-> us, err |-> IF IsHex(hex) THEN ErrNotFound ELSE ErrInvalidID]
        ELSE UserRepoUpdate(us, hex,
                [ex EXCEPT !.Role = IF r.Role # "" THEN r.Role ELSE @,
                           !.Permissions = IF r.Role # ""
                                           THEN GetPermissionsForRole(r.Role) ELSE @,
                           !.CustomPermissions = IF r.CustomPermissions.set
                                                 THEN r.CustomPermissions.v ELSE @])

\* domain.ChangePasswordRequest.
ChangePasswordRequest(old, new) == [OldPassword |-> old, NewPassword |-> new]

\* ChangePassword: the old password compared with the stored hash, the new
\* one hashed into the user read; then userRepo.Update.
ChangePassword(us, hex, r) ==
    LET user == GetByID(us, hex)
    IN  IF user = NoUser
        THEN [users |-> us, err |-> IF IsHex(hex) THEN ErrNotFound ELSE ErrInvalidID]
        ELSE IF ~CompareHashAndPassword(user.Password, r.OldPassword)
        THEN [users |-> us, err |-> ErrInvalidCredentials]
        ELSE UserRepoUpdate(us, hex, [user EXCEPT !.Password = HashPassword(r.NewPassword)])


(***************************************************************************)
(* SpecAuth: the auth use case over a store that holds one user made by    *)
(* the administrative Create, or none; one whole call per step.  last      *)
(* keeps the latest call: its request, the time, what the store held for   *)
(* the request before it (pre), and what it returned.                      *)
(***************************************************************************)
RegisterRequests ==
    {[Username |-> u, Password |-> "s3cret!", Phone |-> ph] :
        u \in Usernames, ph \in Phones}

NewPassword == "n3wpass!"

LoginRequests ==
    {[Username |-> u, Password |-> pw] :
        u \in Usernames, pw \in Passwords \cup {NewPassword}}

\* Administrative updates: deactivate, promote, grant a custom permission.
UpdateRequests ==
    {UpdateUserRequest("", "", "", Set(FALSE), Unset),
     UpdateUserRequest("", "", RoleAdmin, Unset, Unset),
     UpdateUserRequest("", "", "", Unset, Set(<<PermissionManageUser>>))}

UpdateRoleRequests == {UpdateUserRoleRequest(RoleAdmin, Unset)}

ChangePasswordRequests ==
    {ChangePasswordRequest(old, NewPassword) : old \in Passwords}

\* Logout for a stored user, for an ID no user has, and for a text that is
\* no ObjectID.
LogoutRequests(us) == {Hex(id) : id \in DOMAIN us} \cup {Hex(9), <<"not-hex", 0>>}

InitAuth ==
    /\ users \in {<<>>,
                  (1 :> StoredUser(1, "bob", "b@x.io", "0900000002", "s3cret!", RoleStaff))}
    /\ nextID = Cardinality(DOMAIN users) + 1
    /\ pc = [p \in Procs |-> "idle"]
    /\ req = [p \in Procs |-> Idle]
    /\ existing = [p \in Procs |-> NoUser]
    /\ result = [p \in Procs |-> NoResult]
    /\ now = 1
    /\ tokens = {}
    /\ last = NoLast
    /\ calls = 0

AuthFrame == UNCHANGED <<pc, req, existing, result, now>>

AuthRegister ==
    /\ calls < MaxSteps
    /\ \E r \in RegisterRequests :
         LET out == Register(users, nextID, r)
         IN  /\ users' = out.users
             /\ nextID' = IF out.err = NoError THEN nextID + 1 ELSE nextID
             /\ last' = [op |-> "Register", req |-> r, at |-> now,
                         out |-> [err |-> out.err, user |-> out.user]]
    /\ calls' = calls + 1
    /\ UNCHANGED tokens
    /\ AuthFrame

AuthLogin ==
    /\ calls < MaxSteps
    /\ \E r \in LoginRequests, stamped \in BOOLEAN :
         LET out == Login(users, r, now, stamped)
         IN  /\ users' = out.users
             /\ tokens' = tokens \cup out.issued
             /\ last' = [op |-> "Login", req |-> r, at |-> now,
                         pre |-> GetByUsername(users, r.Username),
                         out |-> [err |-> out.err, access |-> out.access,
                                  refresh |-> out.refresh, user |-> out.user]]
    /\ calls' = calls + 1
    /\ UNCHANGED nextID
    /\ AuthFrame

AuthRefreshToken ==
    /\ calls < MaxSteps
    /\ \E e \in tokens :
         LET out == RefreshToken(users, e.tok, now)
         IN  /\ users' = out.users
             /\ tokens' = tokens \cup out.issued
             /\ last' = [op |-> "RefreshToken", entry |-> e, at |-> now,
                         pre |-> GetByID(users, e.tok.payload.user_id),
                         out |-> [err |-> out.err, access |-> out.access,
                                  refresh |-> out.refresh, user |-> out.user]]
    /\ calls' = calls + 1
    /\ UNCHANGED nextID
    /\ AuthFrame

AuthValidateToken ==
    /\ calls < MaxSteps
    /\ \E e \in tokens :
         last' = [op |-> "ValidateToken", entry |-> e, at |-> now,
                  out |-> ValidateToken(e.tok, now)]
    /\ calls' = calls + 1
    /\ UNCHANGED <<users, nextID, tokens>>
    /\ AuthFrame

AuthLogout ==
    /\ calls < MaxSteps
    /\ \E userID \in LogoutRequests(users) :
         LET out == Logout(users, userID)
         IN  /\ users' = out.users
             /\ last' = [op |-> "Logout", req |-> userID, at |-> now,
                         out |-> [err |-> out.err]]
    /\ calls' = calls + 1
    /\ UNCHANGED <<nextID, tokens>>
    /\ AuthFrame

AuthUpdate ==
    /\ calls < MaxSteps
    /\ \E id \in DOMAIN users, r \in UpdateRequests :
         LET out == Update(users, Hex(id), r)
         IN  /\ users' = out.users
             /\ last' = [op |-> "Update", req |-> r, id |-> id, at |-> now,
                         out |-> [err |-> out.err]]
    /\ calls' = calls + 1
    /\ UNCHANGED <<nextID, tokens>>
    /\ AuthFrame

AuthUpdateRole ==
    /\ calls < MaxSteps
    /\ \E id \in DOMAIN users, r \in UpdateRoleRequests :
         LET out == UpdateRole(users, Hex(id), r)
         IN  /\ users' = out.users
             /\ last' = [op |-> "UpdateRole", req |-> r, id |-> id, at |-> now,
                         out |-> [err |-> out.err]]
    /\ calls' = calls + 1
    /\ UNCHANGED <<nextID, tokens>>
    /\ AuthFrame

AuthChangePassword ==
    /\ calls < MaxSteps
    /\ \E id \in DOMAIN users, r \in ChangePasswordRequests :
         LET out == ChangePassword(users, Hex(id), r)
         IN  /\ users' = out.users
             /\ last' = [op |-> "ChangePassword", req |-> r, id |-> id, at |-> now,
                         pre |-> users[id],
                         out |-> [err |-> out.err]]
    /\ calls' = calls + 1
    /\ UNCHANGED <<nextID, tokens>>
    /\ AuthFrame

NextAuth ==
    \/ AuthRegister
    \/ AuthLogin
    \/ AuthRefreshToken
    \/ AuthValidateToken
    \/ AuthLogout
    \/ AuthUpdate
    \/ AuthUpdateRole
    \/ AuthChangePassword
    \/ Tick

SpecAuth == InitAuth /\ [][NextAuth]_vars


(***************************************************************************)
(* Spec: request goroutines on the shared collection.  A goroutine runs    *)
(* one use-case call at a time, and each step is one repository call with  *)
(* the local computation that follows it up to the next one; steps of the  *)
(* two goroutines interleave freely.  pc[p] is the repository call p makes *)
(* next, req[p] its request, existing[p] the user it read and changed      *)
(* locally, result[p] what its latest call returned (dup: the unique       *)
(* indexes the storage rejected the write on).                             *)
(***************************************************************************)
CreateRequests ==
    {[op |-> "Create", Username |-> u, Email |-> e, Phone |-> ph,
      Password |-> "s3cret!", Role |-> RoleStaff] :
        u \in Usernames, e \in {"", "a@x.io"}, ph \in Phones}

StoreUpdateRequests ==
    {UpdateUserRequest("a@x.io", "", "", Unset, Unset),
     UpdateUserRequest("", "0900000001", "", Unset, Unset),
     UpdateUserRequest("", "", "", Set(FALSE), Unset),
     UpdateUserRequest("", "", RoleCustomer, Unset, Unset)}

\* The calls a goroutine may start, on the users there are.
Requests(us) ==
    {[op |-> "Register", Username |-> r.Username, Password |-> r.Password,
      Phone |-> r.Phone] : r \in RegisterRequests}
    \cup CreateRequests
    \cup {[op |-> "Update", ID |-> Hex(i), r |-> r] :
            i \in DOMAIN us, r \in StoreUpdateRequests}
    \cup {[op |-> "UpdateRole", ID |-> Hex(i), Role |-> RoleAdmin,
           CustomPermissions |-> Unset] : i \in DOMAIN us}
    \cup {[op |-> "ChangePassword", ID |-> Hex(i), OldPassword |-> old,
           NewPassword |-> "n3wpass!"] : i \in DOMAIN us, old \in Passwords}
    \cup {[op |-> "Delete", ID |-> Hex(i)] : i \in DOMAIN us}

\* The collection a run starts on: empty, one user made by the administrative
\* Create, or that user and a self-registered one.
SeedBob == StoredUser(1, "bob", "b@x.io", "0900000002", "s3cret!", RoleStaff)
SeedAlice ==
    [RegisterUser([Username |-> "alice", Password |-> "s3cret!", Phone |-> "0900000001"])
        EXCEPT !.ID = 2]

Init ==
    /\ users \in {<<>>, (1 :> SeedBob), (1 :> SeedBob) @@ (2 :> SeedAlice)}
    /\ nextID = Cardinality(DOMAIN users) + 1
    /\ pc = [p \in Procs |-> "idle"]
    /\ req = [p \in Procs |-> Idle]
    /\ existing = [p \in Procs |-> NoUser]
    /\ result = [p \in Procs |-> NoResult]
    /\ now = 1
    /\ tokens = {}
    /\ last = NoLast
    /\ calls = 0

StoreFrame == UNCHANGED <<now, tokens, last>>

\* The call of p returns.
Return(p, e, dup, user) ==
    /\ pc' = [pc EXCEPT ![p] = "idle"]
    /\ result' = [result EXCEPT ![p] = [op |-> req[p].op, req |-> req[p], err |-> e,
                                        dup |-> dup, user |-> user]]
    /\ req' = [req EXCEPT ![p] = Idle]
    /\ existing' = [existing EXCEPT ![p] = NoUser]

\* p goes on to its next repository call.
Goto(p, next, ex) ==
    /\ pc' = [pc EXCEPT ![p] = next]
    /\ existing' = [existing EXCEPT ![p] = ex]
    /\ UNCHANGED <<req, result>>

\* The unique indexes a write of doc under id would violate.
Conflicts(us, id, doc) ==
    {k \in {"username", "phone", "email"} :
        \E i \in DOMAIN us \ {id} :
            \/ k = "username" /\ us[i].Username = doc.Username
            \/ k = "phone" /\ us[i].Phone = doc.Phone
            \/ k = "email" /\ us[i].EmailSet /\ doc.EmailSet /\ us[i].Email = doc.Email}

\* A request arrives and a goroutine takes it.
StartCall(p) ==
    /\ pc[p] = "idle"
    /\ calls < MaxCalls
    /\ \E r \in Requests(users) :
         /\ req' = [req EXCEPT ![p] = r]
         /\ pc' = [pc EXCEPT ![p] =
                     CASE r.op \in {"Register", "Create"} -> "GetByUsername"
                       [] r.op = "Delete" -> "Delete"
                       [] OTHER -> "GetByID"]
    /\ result' = [result EXCEPT ![p] = NoResult]
    /\ calls' = calls + 1
    /\ UNCHANGED <<users, nextID, existing>>
    /\ StoreFrame

\* Register / Create: is the username taken?
CheckUsername(p) ==
    /\ pc[p] = "GetByUsername"
    /\ IF GetByUsername(users, req[p].Username) # NoUser
       THEN Return(p, ErrAlreadyExists, {}, NoUser)
       ELSE Goto(p, "GetByPhone", NoUser)
    /\ UNCHANGED <<users, nextID, calls>>
    /\ StoreFrame

\* Register / Create: is the phone taken?  Create goes on to the email when
\* the request has one.
CheckPhone(p) ==
    /\ pc[p] = "GetByPhone"
    /\ IF GetByPhone(users, req[p].Phone) # NoUser
       THEN Return(p, ErrPhoneAlreadyExists, {}, NoUser)
       ELSE IF req[p].op = "Create" /\ req[p].Email # ""
       THEN Goto(p, "GetByEmail", NoUser)
       ELSE Goto(p, "Create", NoUser)
    /\ UNCHANGED <<users, nextID, calls>>
    /\ StoreFrame

\* Create: is the email taken?
CheckEmail(p) ==
    /\ pc[p] = "GetByEmail"
    /\ IF GetByEmail(users, req[p].Email) # NoUser
       THEN Return(p, ErrEmailAlreadyExists, {}, NoUser)
       ELSE Goto(p, "Create", NoUser)
    /\ UNCHANGED <<users, nextID, calls>>
    /\ StoreFrame

\* The user the administrative Create builds.
CreateUser(r) == NewUser(r.Username, r.Email, r.Phone, HashPassword(r.Password), r.Role)

\* Register / Create: hash the password and persist.
Persist(p) ==
    /\ pc[p] = "Create"
    /\ LET user == IF req[p].op = "Register" THEN RegisterUser(req[p])
                   ELSE CreateUser(req[p])
           c == UserRepoCreate(users, nextID, user)
       IN  /\ users' = c.users
           /\ nextID' = nextID + 1
           /\ Return(p, c.err, Conflicts(users, nextID, c.user),
                     IF c.err = NoError THEN c.user ELSE NoUser)
    /\ UNCHANGED calls
    /\ StoreFrame


\* Update asks for the email, or the phone, only when the request changes it.
NeedsEmailCheck(ex, r) == r.Email # "" /\ r.Email # ex.Email
NeedsPhoneCheck(ex, r) == r.Phone # "" /\ r.Phone # ex.Phone

\* Update / UpdateRole / ChangePassword: read the user, then work on the copy.
GetExisting(p) ==
    /\ pc[p] = "GetByID"
    /\ LET ex == GetByID(users, req[p].ID)
           r == req[p]
       IN  IF ex = NoUser THEN Return(p, ErrNotFound, {}, NoUser)
           ELSE IF r.op = "Update"
           THEN IF NeedsEmailCheck(ex, r.r) THEN Goto(p, "Update.GetByEmail", ex)
                ELSE IF NeedsPhoneCheck(ex, r.r) THEN Goto(p, "Update.GetByPhone", ex)
                ELSE Goto(p, "Update", ApplyUpdate(ex, r.r))
           ELSE IF r.op = "UpdateRole"
           THEN Goto(p, "Update",
                     [ex EXCEPT !.Role = IF r.Role # "" THEN r.Role ELSE @,
                                !.Permissions = IF r.Role # ""
                                                THEN GetPermissionsForRole(r.Role) ELSE @,
                                !.CustomPermissions = IF r.CustomPermissions.set
                                                      THEN r.CustomPermissions.v ELSE @])
           ELSE IF ~CompareHashAndPassword(ex.Password, r.OldPassword)
           THEN Return(p, ErrInvalidCredentials, {}, NoUser)
           ELSE Goto(p, "Update", [ex EXCEPT !.Password = HashPassword(r.NewPassword)])
    /\ UNCHANGED <<users, nextID, calls>>
    /\ StoreFrame

\* Update: is the new email taken?
UpdateCheckEmail(p) ==
    /\ pc[p] = "Update.GetByEmail"
    /\ LET r == req[p].r
           ex == [existing[p] EXCEPT !.Email = r.Email]
       IN  IF GetByEmail(users, r.Email) # NoUser
           THEN Return(p, ErrEmailAlreadyExists, {}, NoUser)
           ELSE IF NeedsPhoneCheck(ex, r) THEN Goto(p, "Update.GetByPhone", ex)
           ELSE Goto(p, "Update", ApplyUpdate(ex, r))
    /\ UNCHANGED <<users, nextID, calls>>
    /\ StoreFrame

\* Update: is the new phone taken?
UpdateCheckPhone(p) ==
    /\ pc[p] = "Update.GetByPhone"
    /\ LET r == req[p].r
           ex == [existing[p] EXCEPT !.Phone = r.Phone]
       IN  IF GetByPhone(users, r.Phone) # NoUser
           THEN Return(p, ErrPhoneAlreadyExists, {}, NoUser)
           ELSE Goto(p, "Update", ApplyUpdate(ex, r))
    /\ UNCHANGED <<users, nextID, calls>>
    /\ StoreFrame

\* Update / UpdateRole / ChangePassword: write the copy back.
PersistUpdate(p) ==
    /\ pc[p] = "Update"
    /\ LET c == UserRepoUpdate(users, req[p].ID, existing[p])
           id == ObjectIDFromHex(req[p].ID)
       IN  /\ users' = c.users
           /\ Return(p, c.err,
                     IF c.err = ErrAlreadyExists
                     THEN Conflicts(users, id, [existing[p] EXCEPT !.EmailSet = TRUE])
                     ELSE {},
                     IF c.err = NoError THEN c.users[id] ELSE NoUser)
    /\ UNCHANGED <<nextID, calls>>
    /\ StoreFrame

\* Delete.
DeleteUser(p) ==
    /\ pc[p] = "Delete"
    /\ LET c == UserRepoDelete(users, req[p].ID)
       IN  /\ users' = c.users
           /\ Return(p, c.err, {}, NoUser)
    /\ UNCHANGED <<nextID, calls>>
    /\ StoreFrame

Next ==
    \E p \in Procs :
        \/ StartCall(p)
        \/ CheckUsername(p)
        \/ CheckPhone(p)
        \/ CheckEmail(p)
        \/ Persist(p)
        \/ GetExisting(p)
        \/ UpdateCheckEmail(p)
        \/ UpdateCheckPhone(p)
        \/ PersistUpdate(p)
        \/ DeleteUser(p)

Spec == Init /\ [][Next]_vars


(***************************************************************************)
(* SpecPerm: the permission functions of a stored user.  One user, of any  *)
(* role, with custom permissions that may repeat or overlap the role's;    *)
(* UpdateRole changes both; GetAllPermissions and HasPermission are asked. *)
(***************************************************************************)
AllPermissions ==
    {PermissionReadRegistration, PermissionWriteRegistration,
     PermissionDeleteRegistration, PermissionReadFile, PermissionWriteFile,
     PermissionDeleteFile, PermissionManageUser}

CustomChoices ==
    {<<>>, <<PermissionManageUser>>, <<PermissionReadFile>>,
     <<PermissionManageUser, PermissionManageUser>>,
     <<PermissionDeleteFile, PermissionManageUser>>}

InitPerm ==
    /\ \E role \in Roles, custom \in CustomChoices :
         users = (1 :> [StoredUser(1, "alice", "", "0900000001", "s3cret!", role)
                          EXCEPT !.CustomPermissions = custom])
    /\ nextID = 2
    /\ pc = [p \in Procs |-> "idle"]
    /\ req = [p \in Procs |-> Idle]
    /\ existing = [p \in Procs |-> NoUser]
    /\ result = [p \in Procs |-> NoResult]
    /\ now = 1
    /\ tokens = {}
    /\ last = NoLast
    /\ calls = 0

PermFrame == UNCHANGED <<nextID, pc, req, existing, result, now, tokens, calls>>

PermUpdateRole ==
    /\ \E role \in Roles \cup {""}, custom \in {Unset} \cup {Set(c) : c \in CustomChoices} :
         LET out == UpdateRole(users, Hex(1), UpdateUserRoleRequest(role, custom))
         IN  /\ users' = out.users
             /\ last' = [op |-> "UpdateRole", out |-> [err |-> out.err]]
    /\ PermFrame

PermGetAllPermissions ==
    /\ last' = [op |-> "GetAllPermissions", user |-> TheUser,
                out |-> GetAllPermissions(TheUser)]
    /\ UNCHANGED users
    /\ PermFrame

PermHasPermission ==
    /\ \E p \in AllPermissions :
         last' = [op |-> "HasPermission", user |-> TheUser, permission |-> p,
                  out |-> HasPermission(TheUser, p)]
    /\ UNCHANGED users
    /\ PermFrame

NextPerm ==
    \/ PermUpdateRole
    \/ PermGetAllPermissions
    \/ PermHasPermission

SpecPerm == InitPerm /\ [][NextPerm]_vars


(***************************************************************************)
(* SpecHTTP: requests to the protected group.  One user of any role, who   *)
(* logs in; tokens made outside the service that name the user an admin;   *)
(* the clock; a request with some Authorization header to a route of the   *)
(* group, or to a group guarded by RequirePermission or by RequireRole     *)
(* with or without JWTAuthMiddleware in front.                             *)
(***************************************************************************)
InitHTTP ==
    /\ \E role \in Roles :
         users = (1 :> StoredUser(1, "alice", "a@x.io", "0900000001", "s3cret!", role))
    /\ nextID = 2
    /\ pc = [p \in Procs |-> "idle"]
    /\ req = [p \in Procs |-> Idle]
    /\ existing = [p \in Procs |-> NoUser]
    /\ result = [p \in Procs |-> NoResult]
    /\ now = 1
    /\ tokens = {}
    /\ last = NoLast
    /\ calls = 0

HTTPFrame == UNCHANGED <<users, nextID, pc, req, existing, result, calls>>

\* The user logs in and holds the pair.
HTTPLogin ==
    /\ last = NoLast
    /\ tokens' = LoginSuccess(users, TheUser, now).issued
    /\ last' = NoLast
    /\ UNCHANGED now
    /\ HTTPFrame

\* Somebody makes a token that names the user an admin.
HTTPForge ==
    /\ last = NoLast
    /\ \E alg \in RegisteredAlgs, key \in Keys :
         LET t == generateAccessToken(TheUser, now)
             claims == [UnmarshalClaims(t.payload) EXCEPT
                          !.Role = RoleAdmin,
                          !.Permissions = GetPermissionsForRole(RoleAdmin)]
         IN  tokens' = {Entry(ForgedToken(alg, key, claims), "forged", TheUser, now)}
    /\ last' = NoLast
    /\ UNCHANGED now
    /\ HTTPFrame

\* The Authorization headers a client may send: none, the scheme alone, the
\* scheme and a space, a token behind "Bearer" in some letter case or behind
\* another scheme, a token alone, a token behind two spaces.
Headers(held) ==
    {<<>>, <<Word("Bearer")>>, <<Word("Bearer"), Space>>}
    \cup {<<Word(w), Space, TokenString(e.tok)>> :
            w \in {"Bearer", "bearer", "Basic"}, e \in held}
    \cup {<<TokenString(e.tok)>> : e \in held}
    \cup {<<Word("Bearer"), Space, Space, TokenString(e.tok)>> : e \in held}

\* Groups the two guards can be put in front of.
GuardChains ==
    {<<UseJWTAuth, UseRequirePermission(p), Handler("guarded")>> : p \in AllPermissions}
    \cup {<<UseJWTAuth, UseRequireRole(<<RoleAdmin, RoleManager>>), Handler("guarded")>>,
          <<UseRequireRole(<<RoleAdmin>>), Handler("guarded")>>,
          <<UseRequirePermission(PermissionReadFile), Handler("guarded")>>}

Chains == {RouteChain(route) : route \in ProtectedRoutes} \cup GuardChains

\* The server answers one request at a time: last is the request being
\* answered, until the response is out.
HTTPRequest ==
    /\ last = NoLast
    /\ \E chain \in Chains, header \in Headers(tokens) :
         last' = [op |-> "Request", chain |-> chain, header |-> header, at |-> now,
                  c |-> Serve(chain, 1, NewContext(header), now)]
    /\ UNCHANGED <<now, tokens>>
    /\ HTTPFrame

HTTPRespond ==
    /\ last # NoLast
    /\ last' = NoLast
    /\ UNCHANGED <<now, tokens>>
    /\ HTTPFrame

HTTPTick == last = NoLast /\ Tick

NextHTTP ==
    \/ HTTPLogin
    \/ HTTPForge
    \/ HTTPTick
    \/ HTTPRequest
    \/ HTTPRespond

SpecHTTP == InitHTTP /\ [][NextHTTP]_vars



(***************************************************************************)
(* SpecCall: one authUsecase call at a time, statement by statement, on a  *)
(* store whose commands can fail.  Each step is one repository call with   *)
(* the local computation that follows it up to the next one; last.steps    *)
(* lists what the call has executed so far, in the order of the code, and  *)
(* result[Caller] is what the call returned.                               *)
(***************************************************************************)
Caller == "g1"

\* An error of the driver that is neither mongo.ErrNoDocuments nor a
\* duplicate key: the server cannot be reached, the context timed out.
ErrStore == "mongo: server selection error"

\* A repository command goes through or fails with ErrStore.
StoreOutcomes == {"ok", "fault"}

\* A user whose account was deleted after a refresh token was issued to it.
Ghost == StoredUser(7, "carol", "", "0900000007", "s3cret!", RoleSale)

CallRequests(held) ==
    {[op |-> "Register", Username |-> r.Username, Password |-> r.Password,
      Phone |-> r.Phone] : r \in RegisterRequests}
    \cup {[op |-> "Login", Username |-> u, Password |-> pw] :
            u \in Usernames, pw \in Passwords}
    \cup {[op |-> "RefreshToken", entry |-> e] : e \in held}

InitCall ==
    /\ users \in {(1 :> SeedBob),
                  (1 :> SeedBob) @@ (2 :> [SeedAlice EXCEPT !.IsActive = FALSE])}
    /\ nextID = Cardinality(DOMAIN users) + 1
    /\ pc = [p \in Procs |-> "idle"]
    /\ req = [p \in Procs |-> Idle]
    /\ existing = [p \in Procs |-> NoUser]
    /\ result = [p \in Procs |-> NoResult]
    /\ now = 1
    /\ tokens = {Entry(generateRefreshToken(Ghost, 1), "refresh", Ghost, 1)}
    /\ last = NoLast
    /\ calls = 0

\* The call executed these statements next.
Did(steps) == last' = [last EXCEPT !.steps = @ \o steps]

\* The call executed these statements next, and the repository command that
\* is the last of them failed with ErrStore.
DidFault(steps) ==
    last' = [last EXCEPT !.steps = @ \o steps, !.fault = steps[Len(steps)]]

\* The call returns e and, from Login and RefreshToken, the response.
CallReturn(e, out) ==
    /\ pc' = [pc EXCEPT ![Caller] = "idle"]
    /\ result' = [result EXCEPT ![Caller] =
                    [op |-> req[Caller].op, req |-> req[Caller], err |-> e, out |-> out]]
    /\ req' = [req EXCEPT ![Caller] = Idle]
    /\ existing' = [existing EXCEPT ![Caller] = NoUser]

CallGoto(next, ex) ==
    /\ pc' = [pc EXCEPT ![Caller] = next]
    /\ existing' = [existing EXCEPT ![Caller] = ex]
    /\ UNCHANGED <<req, result>>

\* A request arrives.
CallStart ==
    /\ pc[Caller] = "idle"
    /\ calls < MaxSteps
    /\ \E r \in CallRequests(tokens) :
         /\ req' = [req EXCEPT ![Caller] = r]
         /\ pc' = [pc EXCEPT ![Caller] =
                     CASE r.op = "Register" -> "Register.GetByUsername"
                       [] r.op = "Login" -> "Login.GetByUsername"
                       [] OTHER -> "RefreshToken.GetByID"]
         /\ last' = [op |-> "Call", req |-> r, pre |-> users, at |-> now,
                     steps |-> <<>>, fault |-> ""]
    /\ result' = [result EXCEPT ![Caller] = NoResult]
    /\ calls' = calls + 1
    /\ UNCHANGED <<users, nextID, existing, now, tokens>>

\* Register: GetByUsername; an error other than ErrNotFound is returned as
\* it is, a user found is ErrAlreadyExists.
RegisterGetByUsername ==
    /\ pc[Caller] = "Register.GetByUsername"
    /\ \E o \in StoreOutcomes :
         IF o = "fault"
         THEN DidFault(<<"GetByUsername">>) /\ CallReturn(ErrStore, NoUser)
         ELSE /\ Did(<<"GetByUsername">>)
              /\ IF GetByUsername(users, req[Caller].Username) # NoUser
                 THEN CallReturn(ErrAlreadyExists, NoUser)
                 ELSE CallGoto("Register.GetByPhone", NoUser)
    /\ UNCHANGED <<users, nextID, now, tokens, calls>>

\* Register: GetByPhone, and after it HashPassword and the user to create.
MutRegisterGetByPhoneHashFirst ==
    /\ pc[Caller] = "Register.GetByPhone"
    /\ \E o \in StoreOutcomes :
         IF o = "fault"
         THEN DidFault(<<"HashPassword", "GetByPhone">>) /\ CallReturn(ErrStore, NoUser)
         ELSE IF GetByPhone(users, req[Caller].Phone) # NoUser
         THEN Did(<<"HashPassword", "GetByPhone">>)
              /\ CallReturn(ErrPhoneAlreadyExists, NoUser)
         ELSE Did(<<"HashPassword", "GetByPhone">>)
              /\ CallGoto("Register.Create", RegisterUser(req[Caller]))
    /\ UNCHANGED <<users, nextID, now, tokens, calls>>

RegisterGetByPhone ==
    /\ pc[Caller] = "Register.GetByPhone"
    /\ \E o \in StoreOutcomes :
         IF o = "fault"
         THEN DidFault(<<"GetByPhone">>) /\ CallReturn(ErrStore, NoUser)
         ELSE IF GetByPhone(users, req[Caller].Phone) # NoUser
         THEN Did(<<"GetByPhone">>) /\ CallReturn(ErrPhoneAlreadyExists, NoUser)
         ELSE Did(<<"GetByPhone", "HashPassword">>)
              /\ CallGoto("Register.Create", RegisterUser(req[Caller]))
    /\ UNCHANGED <<users, nextID, now, tokens, calls>>

\* Register: Create; its error is returned as it is.
RegisterCreate ==
    /\ pc[Caller] = "Register.Create"
    /\ \E o \in StoreOutcomes :
         IF o = "fault"
         THEN /\ DidFault(<<"Create">>)
              /\ CallReturn(ErrStore, NoUser)
              /\ UNCHANGED <<users, nextID>>
         ELSE LET c == UserRepoCreate(users, nextID, existing[Caller])
              IN  /\ Did(<<"Create">>)
                  /\ users' = c.users
                  /\ nextID' = nextID + 1
                  /\ CallReturn(c.err, IF c.err = NoError THEN c.user ELSE NoUser)
    /\ UNCHANGED <<now, tokens, calls>>

\* The response of Login and RefreshToken.
LoginResponse(user, t) ==
    [access |-> generateAccessToken(user, t),
     refresh |-> generateRefreshToken(user, t),
     user |-> UserInfo(user)]

\* Login: GetByUsername, then the active flag, then the password against the
\* stored hash, then the two tokens.
LoginGetByUsername ==
    /\ pc[Caller] = "Login.GetByUsername"
    /\ \E o \in StoreOutcomes :
         LET user == GetByUsername(users, req[Caller].Username)
         IN  IF o = "fault"
             THEN DidFault(<<"GetByUsername">>) /\ CallReturn(ErrStore, NoUser)
             ELSE IF user = NoUser
             THEN Did(<<"GetByUsername">>) /\ CallReturn(ErrInvalidCredentials, NoUser)
             ELSE IF ~user.IsActive
             THEN Did(<<"GetByUsername", "IsActive">>)
                  /\ CallReturn(ErrUserInactive, NoUser)
             ELSE IF ~CompareHashAndPassword(user.Password, req[Caller].Password)
             THEN Did(<<"GetByUsername", "IsActive", "CompareHashAndPassword">>)
                  /\ CallReturn(ErrInvalidCredentials, NoUser)
             ELSE Did(<<"GetByUsername", "IsActive", "CompareHashAndPassword",
                        "generateAccessToken", "generateRefreshToken">>)
                  /\ CallGoto("Login.UpdateLastLogin", user)
    /\ UNCHANGED <<users, nextID, now, tokens, calls>>

\* Login: UpdateLastLogin, whose error is dropped, and the response.
MutLoginUpdateLastLoginChecked ==
    /\ pc[Caller] = "Login.UpdateLastLogin"
    /\ \E o \in StoreOutcomes :
         LET user == existing[Caller]
         IN  IF o = "fault"
             THEN /\ DidFault(<<"UpdateLastLogin">>)
                  /\ UNCHANGED <<users, tokens>>
                  /\ CallReturn(ErrStore, NoUser)
             ELSE /\ Did(<<"UpdateLastLogin">>)
                  /\ users' = UserRepoUpdateLastLogin(users, Hex(user.ID), now)
                  /\ tokens' = tokens \cup LoginSuccess(users, user, now).issued
                  /\ CallReturn(NoError, LoginResponse(user, now))
    /\ UNCHANGED <<nextID, now, calls>>

LoginUpdateLastLogin ==
    /\ pc[Caller] = "Login.UpdateLastLogin"
    /\ \E o \in StoreOutcomes :
         LET user == existing[Caller]
         IN  /\ IF o = "fault" THEN DidFault(<<"UpdateLastLogin">>)
                ELSE Did(<<"UpdateLastLogin">>)
             /\ users' = IF o = "fault" THEN users
                         ELSE UserRepoUpdateLastLogin(users, Hex(user.ID), now)
             /\ tokens' = tokens \cup LoginSuccess(users, user, now).issued
             /\ CallReturn(NoError, LoginResponse(user, now))
    /\ UNCHANGED <<nextID, now, calls>>

\* RefreshToken: validateToken, GetByID with the claims' user_id, the active
\* flag, the two tokens.  Any error of GetByID is ErrInvalidToken.
RefreshTokenGetByID ==
    /\ pc[Caller] = "RefreshToken.GetByID"
    /\ LET tok == req[Caller].entry.tok
           v == validateToken(tok, now)
       IN  IF v.err # NoError
           THEN /\ Did(<<"validateToken">>)
                /\ CallReturn(ErrInvalidToken, NoUser)
                /\ UNCHANGED tokens
           ELSE \E o \in StoreOutcomes :
                  LET user == GetByID(users, v.claims.UserID)
                  IN  IF o = "fault"
                      THEN /\ DidFault(<<"validateToken", "GetByID">>)
                           /\ CallReturn(ErrInvalidToken, NoUser)
                           /\ UNCHANGED tokens
                      ELSE IF user = NoUser
                      THEN /\ Did(<<"validateToken", "GetByID">>)
                           /\ CallReturn(ErrInvalidToken, NoUser)
                           /\ UNCHANGED tokens
                      ELSE IF ~user.IsActive
                      THEN /\ Did(<<"validateToken", "GetByID", "IsActive">>)
                           /\ CallReturn(ErrUserInactive, NoUser)
                           /\ UNCHANGED tokens
                      ELSE /\ Did(<<"validateToken", "GetByID", "IsActive",
                                    "generateAccessToken", "generateRefreshToken">>)
                           /\ tokens' = tokens \cup
                                IssuedFrom(LoginSuccess(users, user, now), tok).issued
                           /\ CallReturn(NoError, LoginResponse(user, now))
    /\ UNCHANGED <<users, nextID, now, calls>>

\* The clock, between calls.
CallTick == pc[Caller] = "idle" /\ calls < MaxSteps /\ Tick

NextCall ==
    \/ CallStart
    \/ RegisterGetByUsername
    \/ RegisterGetByPhone
    \/ RegisterCreate
    \/ LoginGetByUsername
    \/ LoginUpdateLastLogin
    \/ RefreshTokenGetByID
    \/ CallTick

SpecCall == InitCall /\ [][NextCall]_vars


(***************************************************************************)
(* SpecStale: one administrator whose role is lowered in the store while   *)
(* tokens issued to them are in use.  The user logs in and refreshes, an   *)
(* Update or UpdateRole lowers the role once (result[Caller] keeps what    *)
(* that call was and when it returned), the clock advances, and requests   *)
(* with a held token as bearer go through the guards of the routes.        *)
(***************************************************************************)
DemoteRequests ==
    {[op |-> "Update", r |-> UpdateUserRequest("", "", role, Unset, Unset)] :
        role \in {RoleSale, RoleCustomer}}
    \cup {[op |-> "UpdateRole", r |-> UpdateUserRoleRequest(RoleStaff, Unset)]}

\* Groups that ask for what an admin has and the lower roles have not.
StaleChains ==
    {RouteChain("DELETE /users/:id"),
     <<UseJWTAuth, UseRequirePermission(PermissionManageUser), Handler("guarded")>>}

InitStale ==
    /\ users = (1 :> StoredUser(1, "alice", "a@x.io", "0900000001", "s3cret!", RoleAdmin))
    /\ nextID = 2
    /\ pc = [p \in Procs |-> "idle"]
    /\ req = [p \in Procs |-> Idle]
    /\ existing = [p \in Procs |-> NoUser]
    /\ result = [p \in Procs |-> NoResult]
    /\ now = 1
    /\ tokens = {}
    /\ last = NoLast
    /\ calls = 0

StaleFrame == UNCHANGED <<nextID, pc, req, existing, now>>

StaleLogin ==
    /\ last = NoLast
    /\ calls < MaxSteps
    /\ LET out == Login(users, [Username |-> "alice", Password |-> "s3cret!"], now, TRUE)
       IN  /\ users' = out.users
           /\ tokens' = tokens \cup out.issued
    /\ calls' = calls + 1
    /\ UNCHANGED <<result, last>>
    /\ StaleFrame

StaleRefreshToken ==
    /\ last = NoLast
    /\ calls < MaxSteps
    /\ \E e \in tokens :
         LET out == RefreshToken(users, e.tok, now)
         IN  /\ out.err = NoError
             /\ users' = out.users
             /\ tokens' = tokens \cup out.issued
    /\ calls' = calls + 1
    /\ UNCHANGED <<result, last>>
    /\ StaleFrame

\* The role is lowered, once.
StaleDemote ==
    /\ last = NoLast
    /\ calls < MaxSteps
    /\ result[Caller] = NoResult
    /\ \E d \in DemoteRequests :
         LET out == IF d.op = "Update" THEN Update(users, Hex(1), d.r)
                    ELSE UpdateRole(users, Hex(1), d.r)
         IN  /\ users' = out.users
             /\ result' = [result EXCEPT ![Caller] =
                             [op |-> d.op, req |-> d.r, err |-> out.err, at |-> now,
                              pre |-> users[1]]]
    /\ calls' = calls + 1
    /\ UNCHANGED <<tokens, last>>
    /\ StaleFrame

\* A request with a held token, answered before anything else happens.
StaleRequest ==
    /\ last = NoLast
    /\ \E e \in tokens, chain \in StaleChains :
         LET header == <<Word("Bearer"), Space, TokenString(e.tok)>>
         IN  last' = [op |-> "Request", chain |-> chain, header |-> header,
                      entry |-> e, at |-> now,
                      c |-> Serve(chain, 1, NewContext(header), now)]
    /\ UNCHANGED <<users, tokens, result, calls>>
    /\ StaleFrame

\* The response is out.
StaleRespond ==
    /\ last # NoLast
    /\ last' = NoLast
    /\ UNCHANGED <<users, tokens, result, calls>>
    /\ StaleFrame

StaleTick == last = NoLast /\ Tick

NextStale ==
    \/ StaleLogin
    \/ StaleRefreshToken
    \/ StaleDemote
    \/ StaleRequest
    \/ StaleRespond
    \/ StaleTick

SpecStale == InitStale /\ [][NextStale]_vars


(***************************************************************************)
(* SpecEmail: a collection of self-registered users, none of whom has an   *)
(* email, under administrative updates that set none; one whole call per   *)
(* step.  last keeps the latest call, the user it was made on as the store *)
(* held it before (pre), and the error returned.                           *)
(***************************************************************************)
RegisteredBob ==
    [RegisterUser([Username |-> "bob", Password |-> "s3cret!", Phone |-> "0900000002"])
        EXCEPT !.ID = 1]

\* Updates that leave the email alone: deactivate, reactivate, change the
\* role, grant a custom permission.
NoEmailUpdateRequests ==
    {UpdateUserRequest("", "", "", Set(FALSE), Unset),
     UpdateUserRequest("", "", "", Set(TRUE), Unset),
     UpdateUserRequest("", "", RoleStaff, Unset, Unset),
     UpdateUserRequest("", "", "", Unset, Set(<<PermissionManageUser>>))}

InitEmail ==
    /\ users = (1 :> RegisteredBob) @@ (2 :> SeedAlice)
    /\ nextID = 3
    /\ pc = [p \in Procs |-> "idle"]
    /\ req = [p \in Procs |-> Idle]
    /\ existing = [p \in Procs |-> NoUser]
    /\ result = [p \in Procs |-> NoResult]
    /\ now = 1
    /\ tokens = {}
    /\ last = NoLast
    /\ calls = 0

EmailFrame == UNCHANGED <<nextID, pc, req, existing, result, now, tokens>>

EmailUpdate ==
    /\ calls < MaxSteps
    /\ \E id \in DOMAIN users, r \in NoEmailUpdateRequests :
         LET out == Update(users, Hex(id), r)
         IN  /\ users' = out.users
             /\ last' = [op |-> "Update", req |-> r, id |-> id, pre |-> users,
                         out |-> [err |-> out.err]]
    /\ calls' = calls + 1
    /\ EmailFrame

EmailUpdateRole ==
    /\ calls < MaxSteps
    /\ \E id \in DOMAIN users, r \in UpdateRoleRequests :
         LET out == UpdateRole(users, Hex(id), r)
         IN  /\ users' = out.users
             /\ last' = [op |-> "UpdateRole", req |-> r, id |-> id, pre |-> users,
                         out |-> [err |-> out.err]]
    /\ calls' = calls + 1
    /\ EmailFrame

EmailChangePassword ==
    /\ calls < MaxSteps
    /\ \E id \in DOMAIN users, r \in ChangePasswordRequests :
         LET out == ChangePassword(users, Hex(id), r)
         IN  /\ users' = out.users
             /\ last' = [op |-> "ChangePassword", req |-> r, id |-> id, pre |-> users,
                         out |-> [err |-> out.err]]
    /\ calls' = calls + 1
    /\ EmailFrame

NextEmail ==
    \/ EmailUpdate
    \/ EmailUpdateRole
    \/ EmailChangePassword

SpecEmail == InitEmail /\ [][NextEmail]_vars


(***************************************************************************)
(* PROPERTIES                                                              *)
(***************************************************************************)
Validated == last.op = "ValidateToken"

Rejected == last.out = [err |-> ErrInvalidToken, claims |-> NilClaims]

\* C7: an access token issued for a user and given to ValidateToken before
\* its expires-at yields claims whose userID, username, email, role and
\* permission set are those of the user it was issued for.
C7_RoundTrip ==
    (/\ Validated
     /\ last.entry.kind = "access"
     /\ last.at < last.entry.tok.payload.exp)
    => /\ last.out.err = NoError
       /\ last.out.claims.UserID = Hex(last.entry.user.ID)
       /\ last.out.claims.Username = last.entry.user.Username
       /\ last.out.claims.Email = last.entry.user.Email
       /\ last.out.claims.Role = last.entry.user.Role
       /\ Range(last.out.claims.Permissions) = Range(last.entry.user.Permissions)

\* C7 witness: an access token of a user with an email, verified some time
\* after it was issued and before it expires.
C7_Witness ==
    /\ Validated
    /\ last.entry.kind = "access"
    /\ last.entry.user.Email # ""
    /\ last.entry.issuedAt < last.at
    /\ last.at < last.entry.tok.payload.exp
    /\ last.out.err = NoError

\* C9 (as claimed): a token that is malformed, or whose content or signature
\* was changed after issuance, by as little as one character, or that is
\* signed with another key, or that declares a method outside the accepted
\* family, or that is expired, is rejected with ErrInvalidToken and yields no
\* claims.
C9_EveryChangeRejected ==
    (/\ Validated
     /\ \/ last.entry.kind \in {"changed", "rewritten"}
        \/ last.entry.tok.sig.key # SecretKey
        \/ last.entry.tok.header.alg \notin HMACAlgs
        \/ last.at > last.entry.tok.payload.exp)
    => Rejected

\* C10 (as claimed): a token whose header declares any method other than
\* HS256 is rejected with ErrInvalidToken, even when correctly signed with the
\* secret key.
C10_OnlyHS256 ==
    (Validated /\ last.entry.tok.header.alg # SigningMethodHS256) => Rejected

\* C10 (amended): a token whose header declares a method outside the HMAC
\* family is rejected with ErrInvalidToken whatever its signature, and an
\* unexpired token of an HMAC method signed with the secret key is accepted.
C10_OnlyHMACFamily ==
    Validated =>
       /\ last.entry.tok.header.alg \notin HMACAlgs => Rejected
       /\ (/\ last.entry.kind = "forged"
           /\ last.entry.tok.header.alg \in HMACAlgs
           /\ last.entry.tok.sig.key = SecretKey
           /\ last.at < last.entry.tok.payload.exp)
          => last.out.err = NoError

\* C10 witness: a token declaring "none", made with the secret key, was
\* presented before its expiry and rejected.
C10_Witness ==
    /\ Validated
    /\ last.entry.kind = "forged"
    /\ last.entry.tok.header.alg = "none"
    /\ last.entry.tok.sig.key = SecretKey
    /\ last.at < last.entry.tok.payload.exp
    /\ Rejected


\* A call was just made (calls counts them) and it was a Login.
LoginStep == calls' = calls + 1 /\ last'.op = "Login"

\* What a caller gets from a Login or RefreshToken that fails with error e.
Refused(out, e) ==
    out = [err |-> e, access |-> NilToken, refresh |-> NilToken, user |-> NoUser]

\* C4: Login with a username that is not in the store, and Login with an
\* active user's username and a wrong password, both return exactly
\* ErrInvalidCredentials with no token and no user, issue nothing, and leave
\* the store, last_login included, as it was.
C4_InvalidCredentialsAlike ==
    [][(/\ LoginStep
        /\ \/ last'.pre = NoUser
           \/ /\ last'.pre # NoUser
              /\ last'.pre.IsActive
              /\ ~CompareHashAndPassword(last'.pre.Password, last'.req.Password))
       => /\ Refused(last'.out, ErrInvalidCredentials)
          /\ users' = users
          /\ tokens' = tokens]_vars

\* C4 witness: a user who logged in before (last_login is set) is refused for
\* a wrong password at a later time.
C4_Witness ==
    /\ last.op = "Login"
    /\ last.pre # NoUser
    /\ last.pre.IsActive
    /\ last.pre.LastLogin # 0
    /\ last.pre.LastLogin < last.at
    /\ ~CompareHashAndPassword(last.pre.Password, last.req.Password)
    /\ last.out.err = ErrInvalidCredentials

\* C5: Login for a stored user who is not active, with the right password,
\* fails with ErrUserInactive and issues neither token.
C5_InactiveRefused ==
    [][(/\ LoginStep
        /\ last'.pre # NoUser
        /\ ~last'.pre.IsActive
        /\ CompareHashAndPassword(last'.pre.Password, last'.req.Password))
       => /\ Refused(last'.out, ErrUserInactive)
          /\ tokens' = tokens]_vars

\* C5 witness: a deactivated user gave the right password and was refused.
C5_Witness ==
    /\ last.op = "Login"
    /\ last.pre # NoUser
    /\ ~last.pre.IsActive
    /\ CompareHashAndPassword(last.pre.Password, last.req.Password)
    /\ last.out.err = ErrUserInactive

\* C6 (as claimed): a user made by Register has role customer and stored
\* permissions exactly {registration:read, file:read}; a Login that follows
\* with the same username and password succeeds, and its access token, once
\* verified, reports role customer and exactly those two permissions.
C6_RegisterGivesCustomer ==
    [][/\ (/\ calls' = calls + 1
           /\ last'.op = "Register"
           /\ last'.out.err = NoError)
          => /\ last'.out.user.Role = RoleCustomer
             /\ Range(last'.out.user.Permissions)
                  = {PermissionReadRegistration, PermissionReadFile}
       /\ (/\ last.op = "Register"
           /\ last.out.err = NoError
           /\ LoginStep
           /\ last'.req.Username = last.req.Username
           /\ last'.req.Password = last.req.Password)
          => /\ last'.out.err = NoError
             /\ LET v == ValidateToken(last'.out.access, now')
                IN  /\ v.err = NoError
                    /\ v.claims.Role = RoleCustomer
                    /\ Range(v.claims.Permissions)
                         = {PermissionReadRegistration, PermissionReadFile}]_vars

\* A token issued by the service was presented to ValidateToken or RefreshToken.
Presented == last.op \in {"ValidateToken", "RefreshToken"}

\* C8: a token presented to ValidateToken or RefreshToken after its
\* expires-at is rejected with ErrInvalidToken, whatever was done in between;
\* ValidateToken accepts a token the service issued exactly while the clock
\* is before its expires-at.
C8_ExpiredRejected ==
    /\ (Presented /\ last.at > last.entry.tok.payload.exp)
          => /\ last.out.err = ErrInvalidToken
             /\ last.op = "RefreshToken" => Refused(last.out, ErrInvalidToken)
    /\ Validated
          => (last.out.err = NoError <=> last.at < last.entry.tok.payload.exp)

\* C8 witness: a refresh token of a user still active in the store, redeemed
\* after its expires-at, was rejected.
C8_Witness ==
    /\ last.op = "RefreshToken"
    /\ last.entry.kind = "refresh"
    /\ last.at > last.entry.tok.payload.exp
    /\ last.pre # NoUser
    /\ last.pre.IsActive
    /\ last.out.err = ErrInvalidToken


\* C1: no two stored users share a username, or a phone, or a non-empty
\* email, in any state the interleaved Register, Create, Update, UpdateRole,
\* ChangePassword and Delete calls reach.
C1_UniqueIdentity ==
    \A i, j \in DOMAIN users :
        i # j => /\ users[i].Username # users[j].Username
                 /\ users[i].Phone # users[j].Phone
                 /\ users[i].Email # "" => users[i].Email # users[j].Email

\* C1 witness: with two users stored, a write that had passed its use case's
\* checks was turned down by a unique index.
C1_Witness ==
    /\ Cardinality(DOMAIN users) >= 2
    /\ \E p \in Procs : result[p].dup # {}

\* The documents that were in the collection before the calls whose results
\* r1 and r2 are, when those are the only calls made and both are Register.
Before(r1, r2) ==
    {users[i] : i \in DOMAIN users \ {r1.user.ID, r2.user.ID}}

\* Two Register calls with the same username were the only calls made, on a
\* collection where that username and the phones of both requests were free.
TwoRegisters(r1, r2) ==
    /\ calls = 2
    /\ r1.op = "Register"
    /\ r2.op = "Register"
    /\ r1.req.Username = r2.req.Username
    /\ \A d \in Before(r1, r2) :
         /\ d.Username # r1.req.Username
         /\ d.Phone \notin {r1.req.Phone, r2.req.Phone}

OneStored(username) ==
    Cardinality({i \in DOMAIN users : users[i].Username = username}) = 1

\* C2 (as claimed): of two Register calls with the same username, however
\* their steps interleave, one succeeds, the other returns ErrAlreadyExists,
\* and one user with that username is stored.
C2_OneRegisterWins ==
    LET r1 == result["g1"]
        r2 == result["g2"]
    IN  TwoRegisters(r1, r2)
        => /\ {r1.err, r2.err} = {NoError, ErrAlreadyExists}
           /\ OneStored(r1.req.Username)

\* C2 (amended): of two Register calls with the same username, however their
\* steps interleave, one succeeds and one user with that username is
\* stored; the other returns ErrAlreadyExists, or, when both requests carry
\* the same phone, ErrAlreadyExists or ErrPhoneAlreadyExists.
C2_OneWinsOtherConflict ==
    LET r1 == result["g1"]
        r2 == result["g2"]
        errs == {r1.err, r2.err}
    IN  TwoRegisters(r1, r2)
        => /\ NoError \in errs
           /\ Cardinality(errs) = 2
           /\ IF r1.req.Phone = r2.req.Phone
                THEN errs \subseteq {NoError, ErrAlreadyExists,
                                     ErrPhoneAlreadyExists}
                ELSE errs = {NoError, ErrAlreadyExists}
           /\ OneStored(r1.req.Username)

\* C2 witness: both calls passed the username check before either persisted;
\* the second insert was turned down by the username index.
C2_Witness ==
    /\ calls = 2
    /\ result["g1"].op = "Register"
    /\ result["g2"].op = "Register"
    /\ result["g1"].req.Username = result["g2"].req.Username
    /\ result["g1"].req.Phone # result["g2"].req.Phone
    /\ result["g1"].err = NoError
    /\ result["g2"].dup = {"username"}

\* The error the checks of Register and Create give for a conflict, in the
\* order they are made.
CheckError(dup) ==
    IF "username" \in dup THEN ErrAlreadyExists
    ELSE IF "phone" \in dup THEN ErrPhoneAlreadyExists
    ELSE ErrEmailAlreadyExists

\* C3 (as claimed): a Register or Create whose checks passed and whose insert
\* a unique index turned down returns the error its check would have given
\* for that conflict.
C3_StorageConflictAsCheck ==
    \A p \in Procs :
        (result[p].op \in {"Register", "Create"} /\ result[p].dup # {})
        => result[p].err = CheckError(result[p].dup)



\* C11: the access token and the user info a successful RefreshToken returns
\* carry the role the user has in the store at the time of the refresh, and
\* that role's permissions, whatever the user had when the token presented
\* was issued.
C11_RefreshCarriesStoredRole ==
    (last.op = "RefreshToken" /\ last.out.err = NoError)
    => LET c == UnmarshalClaims(last.out.access.payload)
       IN  /\ last.pre # NoUser
           /\ c.Role = last.pre.Role
           /\ c.Permissions = GetPermissionsForRole(last.pre.Role)
           /\ last.out.user.Role = last.pre.Role
           /\ last.out.user.Permissions = GetPermissionsForRole(last.pre.Role)
           /\ ValidateToken(last.out.access, last.at).err = NoError

\* C11 witness: a refresh token issued by Login was redeemed after the user's
\* role had been changed.
C11_Witness ==
    /\ last.op = "RefreshToken"
    /\ last.out.err = NoError
    /\ last.entry.kind = "refresh"
    /\ last.entry.user.Role # last.pre.Role
    /\ UnmarshalClaims(last.out.access.payload).Role = RoleAdmin

\* A Login or RefreshToken call returns.
IssueStep == calls' = calls + 1 /\ last'.op \in {"Login", "RefreshToken"}

\* C12: Login and RefreshToken issue tokens only for a user active in the
\* store at that moment; RefreshToken with an unexpired refresh token of a
\* user since deactivated returns ErrUserInactive and issues nothing.
C12_NoTokensForInactive ==
    [][IssueStep =>
        /\ \A e \in tokens' \ tokens :
             LET u == GetByID(users, e.tok.payload.user_id)
             IN  u # NoUser /\ u.IsActive
        /\ last'.out.err = NoError => (last'.pre # NoUser /\ last'.pre.IsActive)
        /\ (/\ last'.op = "RefreshToken"
            /\ last'.entry.kind = "refresh"
            /\ last'.at < last'.entry.tok.payload.exp
            /\ last'.pre # NoUser
            /\ ~last'.pre.IsActive)
           => (Refused(last'.out, ErrUserInactive) /\ tokens' = tokens)]_vars

\* C12 witness: a refresh token issued to an active user was redeemed, before
\* its expiry, after the user had been deactivated, and was refused.
C12_Witness ==
    /\ last.op = "RefreshToken"
    /\ last.entry.kind = "refresh"
    /\ last.entry.user.IsActive
    /\ last.at < last.entry.tok.payload.exp
    /\ last.pre # NoUser
    /\ ~last.pre.IsActive
    /\ last.out.err = ErrUserInactive



\* permissionsFor(role) united with customPermissions, as a set.
EffectivePermissions(u) ==
    Range(GetPermissionsForRole(u.Role)) \cup Range(u.CustomPermissions)

\* A request with the header "Bearer <tok>" gets past JWTAuthMiddleware and
\* RequirePermission(p) at time t.
PassesRequirePermission(tok, p, t) ==
    ~Serve(<<UseJWTAuth, UseRequirePermission(p), Handler("guarded")>>, 1,
           NewContext(<<Word("Bearer"), Space, TokenString(tok)>>), t).aborted

\* C13 (as claimed): the permissions in the access token of a successful Login
\* or RefreshToken are the role's permissions of the user in the store united
\* with the user's custom permissions, and a request bearing the token
\* passes RequirePermission(p) for every custom permission p of the user.
C13_TokenCarriesEffectivePermissions ==
    (last.op \in {"Login", "RefreshToken"} /\ last.out.err = NoError)
    => /\ Range(UnmarshalClaims(last.out.access.payload).Permissions)
            = EffectivePermissions(last.pre)
       /\ \A p \in Range(last.pre.CustomPermissions) :
            PassesRequirePermission(last.out.access, p, last.at)

\* C14: GetAllPermissions gives each permission of the role or of the custom
\* permissions, and nothing else, once each; the role's permissions alone when
\* there are no custom permissions; for staff with [user:manage], staff's four
\* permissions and user:manage.
C14_GetAllPermissionsIsUnion ==
    last.op = "GetAllPermissions"
    => LET u == last.user
           out == last.out
       IN  /\ BagToSet(out) = EffectivePermissions(u)
           /\ \A p \in BagToSet(out) : CopiesIn(p, out) = 1
           /\ u.CustomPermissions = <<>>
                => BagToSet(out) = Range(RolePermissions[u.Role])
           /\ (u.Role = RoleStaff /\ u.CustomPermissions = <<PermissionManageUser>>)
                => /\ BagToSet(out) = {"registration:read", "registration:write",
                                       "file:read", "file:write", "user:manage"}
                   /\ BagCardinality(out) = 5

\* C14 witness: GetAllPermissions was asked of a user whose custom permissions
\* repeat one permission and of one whose custom permission is also a
\* permission of the role; here the first.
C14_Witness ==
    /\ last.op = "GetAllPermissions"
    /\ last.user.Role = RoleAdmin
    /\ last.user.CustomPermissions = <<PermissionManageUser, PermissionManageUser>>
    /\ BagCardinality(last.out) = 7



\* C15: every stored user's effective permissions, those GetAllPermissions
\* gives, contain all permissions of RolePermissions[role], and the stored
\* role-derived permissions are those of the stored role, in every state the
\* interleaved Register, Create, Update and UpdateRole calls reach.
C15_EffectiveContainsRolePermissions ==
    \A i \in DOMAIN users :
        /\ users[i].Role \in DOMAIN RolePermissions
        /\ Range(RolePermissions[users[i].Role]) \subseteq BagToSet(GetAllPermissions(users[i]))
        /\ users[i].Permissions = RolePermissions[users[i].Role]

\* C15 witness: an Update changed a stored user's role, and an UpdateRole
\* another's (or the same one's).
C15_Witness ==
    /\ \E p \in Procs :
         /\ result[p].op = "Update"
         /\ result[p].err = NoError
         /\ result[p].req.r.Role = RoleCustomer
         /\ result[p].user.Role = RoleCustomer
    /\ \E p \in Procs :
         /\ result[p].op = "UpdateRole"
         /\ result[p].err = NoError



\* C16 (as claimed): once ChangePassword has returned success for a user, a
\* Login with that user's username and the new password succeeds, and one
\* with the old password fails with ErrInvalidCredentials.
C16_NewPasswordLogsIn ==
    [][(/\ last.op = "ChangePassword"
        /\ last.out.err = NoError
        /\ last.pre.IsActive
        /\ LoginStep
        /\ last'.req.Username = last.pre.Username)
       => /\ last'.req.Password = last.req.NewPassword
               => last'.out.err = NoError
          /\ last'.req.Password = last.req.OldPassword
               => Refused(last'.out, ErrInvalidCredentials)]_vars



\* A Logout call returns.
LogoutStep == calls' = calls + 1 /\ last'.op = "Logout"

RefreshStep == calls' = calls + 1 /\ last'.op = "RefreshToken"

\* C18: RefreshToken with an unexpired refresh token of an active user
\* succeeds whether or not the token was redeemed before; a successful
\* RefreshToken returns a pair, leaves the store as it was, and after it the
\* token presented, the refresh token returned and every token that could be
\* redeemed before can be redeemed.
C18_RefreshNotConsumed ==
    [][RefreshStep =>
        /\ (/\ last'.entry.kind = "refresh"
            /\ last'.at < last'.entry.tok.payload.exp
            /\ last'.pre # NoUser
            /\ last'.pre.IsActive)
           => last'.out.err = NoError
        /\ last'.out.err = NoError
           => /\ users' = users
              /\ last'.out.access = generateAccessToken(last'.pre, last'.at)
              /\ last'.out.refresh = generateRefreshToken(last'.pre, last'.at)
              /\ RefreshToken(users', last'.entry.tok, now').err = NoError
              /\ RefreshToken(users', last'.out.refresh, now').err = NoError
              /\ \A e \in tokens :
                   RefreshToken(users, e.tok, now).err = NoError
                   => RefreshToken(users', e.tok, now').err = NoError]_vars

\* C18 witness: a refresh token that had been redeemed at an earlier time was
\* redeemed again, with success.
C18_Witness ==
    /\ last.op = "RefreshToken"
    /\ last.out.err = NoError
    /\ last.entry.kind = "refresh"
    /\ \E f \in tokens :
         /\ f.from = last.entry.tok
         /\ f.kind = "refresh"
         /\ f.issuedAt < last.at



\* The header is the scheme Bearer, in any letter case, one space and a token
\* that ValidateToken accepts at time t.
BearerValid(header, t) ==
    /\ Len(header) = 3
    /\ header[1].kind = "word"
    /\ header[1].text \in {"Bearer", "bearer", "BEARER"}
    /\ header[2].kind = "space"
    /\ header[3].kind = "token"
    /\ ValidateToken(header[3].tok, t).err = NoError

\* The handlers of kind mw the chain entered.
Entered(c, mw) == {i \in 1..Len(c.ran) : c.ran[i].mw = mw}

\* C19: behind JWTAuthMiddleware the handler runs only for a header of the
\* form Bearer <token> whose token ValidateToken accepts; for any other
\* header the answer is 401 and nothing after JWTAuthMiddleware runs, neither
\* RequireRole, nor RequirePermission, nor the handler.
C19_OnlyValidBearerReachesHandler ==
    (last.op = "Request" /\ last.chain[1] = UseJWTAuth)
    => /\ Entered(last.c, "handler") # {} => BearerValid(last.header, last.at)
       /\ ~BearerValid(last.header, last.at)
            => /\ last.c.status = StatusUnauthorized
               /\ last.c.aborted
               /\ last.c.ran = <<UseJWTAuth>>
       /\ BearerValid(last.header, last.at)
            => /\ Len(last.c.ran) >= 2
               /\ last.c.status # StatusUnauthorized

\* C19 witness: a request to a user-management route with a token that names
\* the user an admin but is signed with another key was answered 401; so was
\* one whose header has no scheme.
C19_Witness ==
    /\ last.op = "Request"
    /\ last.chain = RouteChain("DELETE /users/:id")
    /\ Len(last.header) = 3
    /\ last.header[1] = Word("Bearer")
    /\ last.header[3].tok.sig.key = OtherKey
    /\ last.header[3].tok.payload.role = RoleAdmin
    /\ last.c.status = StatusUnauthorized
    /\ last.c.ran = <<UseJWTAuth>>

\* The guard at place i of the chain let the request through.
Passed(c, i) == Len(c.ran) > i /\ ~c.aborted

\* C20: RequireRole lets a request through exactly when the context has a
\* role and it is among the allowed ones, RequirePermission exactly when the
\* context has permissions and the one required is among them; otherwise the
\* answer is 403 and nothing after the guard runs; behind JWTAuthMiddleware
\* the role and the permissions of the context are those of the verified
\* claims.  The handlers of the user
\* routes and of the customer create, update and delete routes run only for
\* verified claims with role admin.
C20_GuardsPassExactly ==
    last.op = "Request"
    => LET c == last.c
           chain == last.chain
       IN  /\ \A i \in Entered(c, "RequireRole") :
                /\ Passed(c, i) <=> /\ "role" \in DOMAIN c.keys
                                    /\ c.keys["role"] \in Range(chain[i].roles)
                /\ ~Passed(c, i) => /\ c.status = StatusForbidden
                                    /\ c.aborted
                                    /\ Len(c.ran) = i
           /\ \A i \in Entered(c, "RequirePermission") :
                /\ Passed(c, i) <=> /\ "permissions" \in DOMAIN c.keys
                                    /\ chain[i].permission \in Range(c.keys["permissions"])
                /\ ~Passed(c, i) => /\ c.status = StatusForbidden
                                    /\ c.aborted
                                    /\ Len(c.ran) = i
           /\ (Len(c.ran) >= 2 /\ chain[1] = UseJWTAuth)
                => LET claims == ValidateToken(last.header[3].tok, last.at).claims
                   IN  /\ c.keys["role"] = claims.Role
                       /\ c.keys["permissions"] = claims.Permissions
           /\ \A route \in UserRoutes \cup CustomerWriteRoutes :
                (chain = RouteChain(route) /\ Entered(c, "handler") # {})
                => /\ BearerValid(last.header, last.at)
                   /\ ValidateToken(last.header[3].tok, last.at).claims.Role = RoleAdmin

\* C20 witness: a user who is not an admin sent a valid access token to a
\* customer write route and was answered 403 by RequireRole.
C20_Witness ==
    /\ last.op = "Request"
    /\ last.chain = RouteChain("POST /customers")
    /\ BearerValid(last.header, last.at)
    /\ TheUser.Role = RoleSale
    /\ last.c.status = StatusForbidden
    /\ last.c.ran = <<UseJWTAuth, UseRequireRole(<<RoleAdmin>>)>>



\* The errors of the taxonomy.
TaxonomyErrors ==
    {ErrInvalidCredentials, ErrInvalidToken, ErrUserInactive, ErrAlreadyExists,
     ErrPhoneAlreadyExists, ErrEmailAlreadyExists}

\* The call of Caller has returned.
Returned(op) == pc[Caller] = "idle" /\ result[Caller].op = op

\* C21: when a lookup of the user store (GetByUsername, GetByPhone, GetByID)
\* fails in Register, Login or RefreshToken with an error that is not
\* NotFound, the call returns a failure that is none of the taxonomy errors;
\* and no call returns the store's NotFound.
C21_StoreErrorsOpaque ==
    \A op \in {"Register", "Login", "RefreshToken"} :
        Returned(op)
        => /\ last.fault \in {"GetByUsername", "GetByPhone", "GetByID"}
                => /\ result[Caller].err # NoError
                   /\ result[Caller].err \notin TaxonomyErrors
           /\ result[Caller].err # ErrNotFound



\* C22: the handlers of the customer read routes (list, get by id) run only
\* for verified claims whose role is admin or sale; a request with a valid
\* token of a manager, staff or customer is refused.
C22_CustomerReadsAdminOrSale ==
    (last.op = "Request" /\ \E route \in CustomerReadRoutes : last.chain = RouteChain(route))
    => (Entered(last.c, "handler") # {}
        => /\ BearerValid(last.header, last.at)
           /\ ValidateToken(last.header[3].tok, last.at).claims.Role \in {RoleAdmin, RoleSale})



\* The statements the call has executed.
Steps == Range(last.steps)

\* C23: a Login that found the user by username has compared the password
\* with the stored hash by the time it returns, also when the account is
\* inactive: ErrUserInactive comes only after the comparison has run.
C23_PasswordVerifiedBeforeInactive ==
    (Returned("Login") /\ GetByUsername(last.pre, last.req.Username) # NoUser
     /\ last.fault # "GetByUsername")
    => "CompareHashAndPassword" \in Steps



IsPrefix(s, t) == Len(s) <= Len(t) /\ \A i \in 1..Len(s) : s[i] = t[i]

UsernameTaken == GetByUsername(last.pre, last.req.Username) # NoUser
PhoneTaken == GetByPhone(last.pre, last.req.Phone) # NoUser

\* C24: Register runs username lookup, phone lookup, password hashing and
\* persist in this order and stops at the first that fails; the password is
\* hashed only when neither the username nor the phone is taken; a call that
\* did not reach persist leaves the collection as it was; and a request whose
\* username and phone are both taken returns ErrAlreadyExists, the username's
\* error.
C24_RegisterOrder ==
    Returned("Register")
    => /\ IsPrefix(last.steps, <<"GetByUsername", "GetByPhone", "HashPassword", "Create">>)
       /\ "HashPassword" \in Steps => ~UsernameTaken /\ ~PhoneTaken
       /\ "Create" \notin Steps => users = last.pre
       /\ (UsernameTaken \/ PhoneTaken) => users = last.pre
       /\ (UsernameTaken /\ PhoneTaken /\ last.fault = "")
            => result[Caller].err = ErrAlreadyExists

\* C24 witness: after a Register that stored a user, a Register with that
\* user's username and phone returned ErrAlreadyExists after the username
\* lookup alone.
C24_Witness ==
    /\ Returned("Register")
    /\ UsernameTaken /\ PhoneTaken
    /\ result[Caller].err = ErrAlreadyExists
    /\ last.steps = <<"GetByUsername">>
    /\ last.req.Username = "alice"
    /\ GetByUsername(last.pre, "alice").IsActive



\* C25: a Login that found the user, active, with the matching password
\* returns no error and the token pair, whether UpdateLastLogin went through
\* or failed.
C25_LastLoginBestEffort ==
    LET user == GetByUsername(last.pre, last.req.Username)
    IN  (/\ Returned("Login")
         /\ last.fault # "GetByUsername"
         /\ user # NoUser
         /\ user.IsActive
         /\ CompareHashAndPassword(user.Password, last.req.Password))
        => /\ result[Caller].err = NoError
           /\ result[Caller].out.access = generateAccessToken(user, last.at)
           /\ result[Caller].out.refresh = generateRefreshToken(user, last.at)
           /\ ValidateToken(result[Caller].out.access, last.at).err = NoError

\* C25 witness: UpdateLastLogin failed, the collection has no new last_login,
\* and Login returned the pair.
C25_Witness ==
    /\ Returned("Login")
    /\ last.fault = "UpdateLastLogin"
    /\ users = last.pre
    /\ result[Caller].err = NoError
    /\ ValidateToken(result[Caller].out.refresh, last.at).err = NoError



\* The request carries, behind Bearer, a token the service issued as a
\* refresh token.
BearsRefreshToken ==
    /\ Len(last.header) = 3
    /\ last.header[1].kind = "word"
    /\ last.header[3].kind = "token"
    /\ \E e \in tokens : e.kind = "refresh" /\ e.tok = last.header[3].tok

\* C27: a request to a protected route that carries a refresh token as its
\* bearer token reaches no handler of the protected group.
C27_RefreshTokenOpensNoRoute ==
    (/\ last.op = "Request"
     /\ \E route \in ProtectedRoutes : last.chain = RouteChain(route)
     /\ BearsRefreshToken)
    => Entered(last.c, "handler") = {}



\* C28: RefreshToken presented with an unexpired token that was issued as an
\* access token fails with ErrInvalidToken and returns no tokens.
C28_AccessTokenNotRedeemable ==
    (/\ last.op = "RefreshToken"
     /\ last.entry.kind = "access"
     /\ ValidateToken(last.entry.tok, last.at).err = NoError)
    => /\ last.out.err = ErrInvalidToken
       /\ last.out.refresh = NilToken



\* The role was lowered in the store.
Demoted ==
    /\ result[Caller].op \in {"Update", "UpdateRole"}
    /\ result[Caller].err = NoError
    /\ users[1].Role # result[Caller].pre.Role

\* The request went through the guard to the handler.
Served == last.op = "Request" /\ Entered(last.c, "handler") # {}

\* C26: after the role is lowered in the store, an access token issued with
\* the old role keeps passing RequireRole and RequirePermission until it
\* expires; every access token Login or RefreshToken issues after the change
\* carries the stored role and its permissions; and no request passes the
\* guards of the old role once one access-token lifetime has gone by since
\* the change.
C26_StalenessBounded ==
    Demoted
    => /\ (/\ last.op = "Request"
           /\ last.entry.kind = "access"
           /\ last.entry.user.Role = result[Caller].pre.Role
           /\ ValidateToken(last.entry.tok, last.at).err = NoError)
          => Served
       /\ \A e \in tokens :
            (e.kind = "access" /\ e.issuedAt > result[Caller].at)
            => /\ ValidateToken(e.tok, e.issuedAt).claims.Role = users[1].Role
               /\ ValidateToken(e.tok, e.issuedAt).claims.Permissions
                    = GetPermissionsForRole(users[1].Role)
       /\ Served
          => /\ last.entry.kind = "access"
             /\ last.entry.issuedAt <= result[Caller].at
             /\ last.at < last.entry.tok.payload.exp
             /\ last.at < result[Caller].at + AccessTokenDuration

\* C26 witness: a request made after the role was lowered, at a later time,
\* passed the admin guard with an access token from before the change, while
\* the user also holds an access token issued after it.
C26_Witness ==
    /\ Demoted
    /\ Served
    /\ last.at > result[Caller].at
    /\ \E e \in tokens : e.kind = "access" /\ e.issuedAt > result[Caller].at



\* The call of p was an Update, UpdateRole or ChangePassword of the user
\* with this ID, it returned without error, and p is idle again.
Updated(p, id) ==
    /\ pc[p] = "idle"
    /\ result[p].op \in {"Update", "UpdateRole", "ChangePassword"}
    /\ result[p].err = NoError
    /\ result[p].req.ID = id

\* The role the call of p asked for, "" when it asked for none.
RoleAsked(p) ==
    CASE result[p].op = "Update" -> result[p].req.r.Role
      [] result[p].op = "UpdateRole" -> result[p].req.Role
      [] OTHER -> ""

\* The call of p asked to deactivate the user.
DeactivationAsked(p) ==
    /\ result[p].op = "Update"
    /\ result[p].req.r.IsActive.set
    /\ ~result[p].req.r.IsActive.v

\* C29: when two calls among Update, UpdateRole and ChangePassword on the
\* same user have both returned without error, the stored user has what each
\* of them asked for: it is inactive when one asked to deactivate it, and it
\* has the role one of them asked for when the other asked for no role,
\* however the reads and writes of the two interleaved.
C29_ConcurrentUpdatesKept ==
    \A p, q \in Procs, i \in DOMAIN users :
        (p # q /\ Updated(p, Hex(i)) /\ Updated(q, Hex(i)))
        => /\ DeactivationAsked(p) => ~users[i].IsActive
           /\ (RoleAsked(p) # "" /\ RoleAsked(q) = "") => users[i].Role = RoleAsked(p)



\* The errors that report a uniqueness conflict.
ConflictErrors == {ErrAlreadyExists, ErrEmailAlreadyExists, ErrPhoneAlreadyExists}

\* C30: an Update, UpdateRole or ChangePassword of a user with no email, by
\* a request that sets no email, returns no uniqueness conflict, whichever
\* other users have no email and whatever was updated before.
C30_NoEmailNoConflict ==
    (/\ last.op \in {"Update", "UpdateRole", "ChangePassword"}
     /\ last.pre[last.id].Email = "")
    => last.out.err \notin ConflictErrors

====
